---- MODULE Spec2Model ----
(***************************************************************************)
(* A model of Lira's valuation core: currency conversion, the rate gateway *)
(* (getAssetRates / getHistoricalAssetRates with its single cache slot)    *)
(* and the ledger replay (calculateBalanceAtDate and the fold inside       *)
(* calculateAssetValueAtDate), all of src/src/lib/currency.tsx.            *)
(*                                                                         *)
(* Conventions.  JS numbers are modelled as exact rationals <<n, d>> with  *)
(* d > 0 in lowest terms; `undefined` (a missing property) is the empty    *)
(* tuple <<>>.  A JS object used as a rate table is a sequence of          *)
(* [asset, rate] entries in insertion order, which is the order            *)
(* Object.keys returns for ticker keys.  `null` of an optional value is    *)
(* <<>> and a present value v is <<v>>.  Ledger amounts (DECIMAL columns)  *)
(* are integers.                                                           *)
(***************************************************************************)
EXTENDS Integers, Sequences, FiniteSets, TLC

VARIABLES
    conv,        \* one convertCurrency computation: inputs and results
    ledger,      \* Transaction[]: the rows handed to the replay
    balances,    \* AccountBalance rows: id -> current_balance
    replay,      \* the values the replay produced, per balance and date
    ratesCache,  \* the module-level cache slot of currency.tsx
    clock,       \* Date.now(), in hours
    calls,       \* the getAssetRates / getHistoricalAssetRates calls
    chart,       \* one calculateHistoricalHoldings calculation
    db,          \* the account_balances and transactions tables and their sessions
    form         \* the account being edited on the accounts page

vars == <<conv, ledger, balances, replay, ratesCache, clock, calls, chart, db, form>>

-----------------------------------------------------------------------------
(* JS numbers as exact rationals *)

Abs(n) == IF n < 0 THEN -n ELSE n

RECURSIVE Gcd(_, _)
Gcd(a, b) == IF b = 0 THEN a ELSE Gcd(b, a % b)

Rat(n, d) ==
    LET s == IF d < 0 THEN -1 ELSE 1
        g == Gcd(Abs(n), Abs(d))
    IN  <<(s * n) \div g, (s * d) \div g>>

Num(n) == <<n, 1>>

Undefined == <<>>

RMul(a, b) == Rat(a[1] * b[1], a[2] * b[2])

RDiv(a, b) == Rat(a[1] * b[2], a[2] * b[1])

\* JS truthiness of a number-or-undefined: undefined and 0 are falsy
Truthy(r) == r # Undefined /\ r[1] # 0

-----------------------------------------------------------------------------
(* AssetRates objects *)

HasKey(rates, a) == \E i \in 1..Len(rates) : rates[i].asset = a

\* rates[a]
Get(rates, a) ==
    IF HasKey(rates, a)
    THEN rates[CHOOSE i \in 1..Len(rates) : rates[i].asset = a].rate
    ELSE Undefined

\* rates[a] = v: an existing key keeps its position, a new key goes last
Put(rates, a, v) ==
    IF HasKey(rates, a)
    THEN [i \in 1..Len(rates) |->
            IF rates[i].asset = a THEN [asset |-> a, rate |-> v] ELSE rates[i]]
    ELSE Append(rates, [asset |-> a, rate |-> v])

\* Object.keys(rates).find((asset) => rates[asset] === 1) || "USD"
FindBase(rates) ==
    LET ones == {i \in 1..Len(rates) : rates[i].rate = Num(1)}
    IN  IF ones = {} THEN "USD"
        ELSE rates[CHOOSE i \in ones : \A j \in ones : i <= j].asset

-----------------------------------------------------------------------------
(* convertCurrency *)

convertCurrencyCrossMultiplies(amount, fromAsset, toAsset, rates) ==
    IF fromAsset = toAsset THEN amount
    ELSE LET baseCurrency == FindBase(rates)
         IN  IF fromAsset = baseCurrency /\ Truthy(Get(rates, toAsset))
             THEN RMul(amount, Get(rates, toAsset))
             ELSE IF toAsset = baseCurrency /\ Truthy(Get(rates, fromAsset))
             THEN RMul(amount, Get(rates, fromAsset))
             ELSE IF Truthy(Get(rates, fromAsset)) /\ Truthy(Get(rates, toAsset))
             THEN RMul(RMul(amount, Get(rates, fromAsset)), Get(rates, toAsset))
             ELSE amount

convertCurrencyThrowsAwayAmount(amount, fromAsset, toAsset, rates) ==
    IF fromAsset = toAsset THEN amount
    ELSE LET baseCurrency == FindBase(rates)
         IN  IF fromAsset = baseCurrency /\ Truthy(Get(rates, toAsset))
             THEN RMul(amount, Get(rates, toAsset))
             ELSE IF toAsset = baseCurrency /\ Truthy(Get(rates, fromAsset))
             THEN RMul(amount, Get(rates, fromAsset))
             ELSE IF Truthy(Get(rates, fromAsset)) /\ Truthy(Get(rates, toAsset))
             THEN RDiv(RMul(amount, Get(rates, fromAsset)), Get(rates, toAsset))
             ELSE Num(0)

\* a conversion that goes only through the base it picked
convertCurrencyThroughPickedBaseOnly(amount, fromAsset, toAsset, rates) ==
    IF fromAsset = toAsset THEN amount
    ELSE LET baseCurrency == FindBase(rates)
         IN  IF fromAsset = baseCurrency /\ Truthy(Get(rates, toAsset))
             THEN RMul(amount, Get(rates, toAsset))
             ELSE IF toAsset = baseCurrency /\ Truthy(Get(rates, fromAsset))
             THEN RMul(amount, Get(rates, fromAsset))
             ELSE amount

convertCurrency(amount, fromAsset, toAsset, rates) ==
    IF fromAsset = toAsset THEN amount
    ELSE LET baseCurrency == FindBase(rates)
         IN  IF fromAsset = baseCurrency /\ Truthy(Get(rates, toAsset))
             THEN RMul(amount, Get(rates, toAsset))
             ELSE IF toAsset = baseCurrency /\ Truthy(Get(rates, fromAsset))
             THEN RMul(amount, Get(rates, fromAsset))
             ELSE IF Truthy(Get(rates, fromAsset)) /\ Truthy(Get(rates, toAsset))
             THEN RDiv(RMul(amount, Get(rates, fromAsset)), Get(rates, toAsset))
             ELSE amount

-----------------------------------------------------------------------------
(* Inputs of the conversion specification *)

Tickers == {"USD", "EUR", "BTC"}

ConvAmounts == {Num(0), Num(90), Num(100), Rat(-5, 2)}

ConvRates == {Num(0), Num(1), Rat(9, 10), Num(2)}

\* every object over Tickers: each set of keys in each insertion order
RECURSIVE TablesOver(_)
TablesOver(S) ==
    {<<>>} \cup
    UNION {{<<[asset |-> a, rate |-> r]>> \o t : r \in ConvRates, t \in TablesOver(S \ {a})}
           : a \in S}

ConvTables == TablesOver(Tickers)

IdleConv ==
    [amount |-> Num(0), from |-> "USD", to |-> "USD", rates |-> <<>>,
     result |-> <<>>, back |-> <<>>]

\* result = convertCurrency(amount, from, to, rates)
Convert ==
    /\ conv.result = <<>>
    /\ conv' = [conv EXCEPT !.result =
                    <<convertCurrency(conv.amount, conv.from, conv.to, conv.rates)>>]
    /\ UNCHANGED <<ledger, balances, replay, ratesCache, clock, calls, chart, db, form>>

\* back = convertCurrency(result, to, from, rates): the result converted back
ConvertBack ==
    /\ conv.result # <<>>
    /\ conv.back = <<>>
    /\ conv' = [conv EXCEPT !.back =
                    <<convertCurrency(conv.result[1], conv.to, conv.from, conv.rates)>>]
    /\ UNCHANGED <<ledger, balances, replay, ratesCache, clock, calls, chart, db, form>>

-----------------------------------------------------------------------------
(* Time.  An instant (Date.getTime()) is a number of hours; a DATE column  *)
(* is a day number, and new Date("YYYY-MM-DD") is that day's UTC midnight. *)

HoursPerDay == 24

ParseDate(day) == day * HoursPerDay

-----------------------------------------------------------------------------
(* Ledger replay *)

NullId == "null"

BalanceIds == {"A", "B"}

BalanceCurrency == [b \in BalanceIds |-> IF b = "A" THEN "USD" ELSE "EUR"]

\* the AccountBalance row with id b
BalanceRow(b) ==
    [id |-> b, currency |-> BalanceCurrency[b], current_balance |-> balances[b]]

\* one step of the forEach of calculateBalanceAtDate
ApplyTransactionBothLegsFromAmount(balanceAtDate, transaction, currentBalance) ==
    IF transaction.type = "income"
    THEN balanceAtDate + transaction.amount
    ELSE IF transaction.type = "expense" \/ transaction.type = "taxation"
    THEN balanceAtDate - transaction.amount
    ELSE IF transaction.type = "transfer"
    THEN IF transaction.to_account_balance_id = currentBalance.id
         THEN balanceAtDate + transaction.amount
         ELSE IF transaction.account_balance_id = currentBalance.id
         THEN balanceAtDate - transaction.amount
         ELSE balanceAtDate
    ELSE balanceAtDate

ApplyTransaction(balanceAtDate, transaction, currentBalance) ==
    IF transaction.type = "income"
    THEN balanceAtDate + transaction.amount
    ELSE IF transaction.type = "expense" \/ transaction.type = "taxation"
    THEN balanceAtDate - transaction.amount
    ELSE IF transaction.type = "transfer"
    THEN IF transaction.to_account_balance_id = currentBalance.id
         THEN balanceAtDate +
                (IF transaction.to_amount = <<>> THEN 0 ELSE transaction.to_amount[1])
         ELSE IF transaction.account_balance_id = currentBalance.id
         THEN balanceAtDate - transaction.amount
         ELSE balanceAtDate
    ELSE balanceAtDate

RECURSIVE FoldTransactions(_, _, _)
FoldTransactions(balanceAtDate, transactions, currentBalance) ==
    IF transactions = <<>> THEN balanceAtDate
    ELSE FoldTransactions(
            ApplyTransaction(balanceAtDate, Head(transactions), currentBalance),
            Tail(transactions), currentBalance)

\* assetTransactions.filter((t) => new Date(t.date) <= targetDate)
RelevantTransactions(assetTransactions, targetDate) ==
    SelectSeq(assetTransactions, LAMBDA t : ParseDate(t.date) <= targetDate)

calculateBalanceAtDate(currentBalance, assetTransactions, targetDate) ==
    FoldTransactions(0, RelevantTransactions(assetTransactions, targetDate),
                     currentBalance)

\* one step of the forEach of calculateAssetValueAtDate
ApplyAssetTransaction(balanceAtDate, transaction, currentBalance) ==
    IF transaction.type = "income"
    THEN balanceAtDate + transaction.amount
    ELSE IF transaction.type = "expense" \/ transaction.type = "taxation"
    THEN balanceAtDate - transaction.amount
    ELSE IF transaction.type = "transfer"
    THEN IF transaction.to_account_balance_id = currentBalance.id
         THEN balanceAtDate +
                (IF transaction.to_amount = <<>> THEN 0 ELSE transaction.to_amount[1])
         ELSE IF transaction.account_balance_id = currentBalance.id
         THEN balanceAtDate - transaction.amount
         ELSE balanceAtDate
    ELSE balanceAtDate

RECURSIVE FoldAssetTransactions(_, _, _)
FoldAssetTransactions(balanceAtDate, transactions, currentBalance) ==
    IF transactions = <<>> THEN balanceAtDate
    ELSE FoldAssetTransactions(
            ApplyAssetTransaction(balanceAtDate, Head(transactions), currentBalance),
            Tail(transactions), currentBalance)

\* the local balanceAtDate of calculateAssetValueAtDate, before the conversion
AssetBalanceAtDate(currentBalance, assetTransactions, targetDate) ==
    FoldAssetTransactions(
        0, SelectSeq(assetTransactions, LAMBDA t : ParseDate(t.date) <= targetDate),
        currentBalance)

calculateAssetValueAtDate(currentBalance, assetTransactions, rates, mainCurrency, targetDate) ==
    convertCurrency(
        Num(AssetBalanceAtDate(currentBalance, assetTransactions, targetDate)),
        currentBalance.currency, mainCurrency, rates)

\* transactions.filter((t) => t.account_balance_id === balance.id ||
\*                            t.to_account_balance_id === balance.id)
TransactionsOf(transactions, balanceId) ==
    SelectSeq(transactions,
              LAMBDA t : t.account_balance_id = balanceId
                         \/ t.to_account_balance_id = balanceId)

-----------------------------------------------------------------------------
(* Inputs of the replay specification *)

MaxTx == 2

MaxDay == 5

TxDates == {1, 5}

Days == 0..MaxDay

\* the instants a chart point can carry: a day's UTC midnight or its noon
Instants == {ParseDate(d) + o : d \in Days, o \in {0, HoursPerDay \div 2}}

TransferRows ==
    [type : {"transfer"}, amount : {100}, account_balance_id : BalanceIds,
     to_account_balance_id : BalanceIds, to_amount : {<<>>, <<90>>}, date : TxDates]

SingleBalanceRows ==
    [type : {"income", "expense", "taxation"}, amount : {30, 100},
     account_balance_id : BalanceIds, to_account_balance_id : {NullId},
     to_amount : {<<>>}, date : TxDates]

TransactionRows == TransferRows \cup SingleBalanceRows

ReplayNone ==
    [done |-> FALSE,
     balanceAtDate |-> [b \in BalanceIds |-> [d \in Days |-> 0]],
     assetBalance |-> [b \in BalanceIds |-> [t \in Instants |-> 0]]]

\* a row reaches the array the chart code is given
InsertTransaction ==
    /\ Len(ledger) < MaxTx
    /\ \E row \in TransactionRows : ledger' = Append(ledger, row)
    /\ replay' = ReplayNone
    /\ UNCHANGED <<conv, balances, ratesCache, clock, calls, chart, db, form>>

\* the per-balance, per-date loops of createSimpleHistoricalChart (calling
\* calculateBalanceAtDate with new Date(dateString)) and of
\* calculatePortfolioValueAtDate (calling calculateAssetValueAtDate)
Replay ==
    /\ ~replay.done
    /\ replay' =
        [done |-> TRUE,
         balanceAtDate |->
            [b \in BalanceIds |-> [d \in Days |->
                calculateBalanceAtDate(BalanceRow(b), TransactionsOf(ledger, b),
                                       ParseDate(d))]],
         assetBalance |->
            [b \in BalanceIds |-> [t \in Instants |->
                AssetBalanceAtDate(BalanceRow(b), TransactionsOf(ledger, b), t)]]]
    /\ UNCHANGED <<conv, ledger, balances, ratesCache, clock, calls, chart, db, form>>

-----------------------------------------------------------------------------
(* Asset registry (ASSETS, findAssetCategory) *)

\* Object.keys(ASSETS), and so Object.entries(assetsByCategory), in order
Categories == <<"currency", "stock", "etf", "crypto">>

findAssetCategory(ticker) ==
    IF ticker \in {"USD", "EUR"} THEN "currency"
    ELSE IF ticker \in {"AAPL"} THEN "stock"
    ELSE IF ticker \in {"BTC"} THEN "crypto"
    ELSE "currency"

\* String.prototype.sort order of the tickers (UTF-16 code units)
TickerRank(a) == CASE a = "BTC" -> 1 [] a = "EUR" -> 2 [] a = "USD" -> 3 [] OTHER -> 0

RECURSIVE InsertSorted(_, _)
InsertSorted(sorted, a) ==
    IF sorted = <<>> THEN <<a>>
    ELSE IF TickerRank(a) < TickerRank(Head(sorted)) THEN <<a>> \o sorted
    ELSE <<Head(sorted)>> \o InsertSorted(Tail(sorted), a)

\* [...list].sort()
RECURSIVE Sorted(_)
Sorted(list) ==
    IF list = <<>> THEN <<>> ELSE InsertSorted(Sorted(Tail(list)), Head(list))

-----------------------------------------------------------------------------
(* The request of one category *)

Contains(list, a) == \E i \in 1..Len(list) : list[i] = a

\* assetsByCategory[category] after the categorising forEach
RECURSIVE AssetsOfCategory(_, _)
AssetsOfCategory(assetsWithBalances, category) ==
    IF assetsWithBalances = <<>> THEN <<>>
    ELSE LET front == SubSeq(assetsWithBalances, 1, Len(assetsWithBalances) - 1)
             asset == assetsWithBalances[Len(assetsWithBalances)]
             rest  == AssetsOfCategory(front, category)
         IN  IF findAssetCategory(asset) = category /\ ~Contains(rest, asset)
             THEN Append(rest, asset) ELSE rest

\* assets.filter((asset) => asset !== baseCurrency)
CategoryAssets(assetsWithBalances, category, baseCurrency) ==
    SelectSeq(AssetsOfCategory(assetsWithBalances, category),
              LAMBDA asset : asset # baseCurrency)

\* the ticker sent upstream for an asset
EncodeTicker(category, asset) ==
    IF category = "currency" THEN asset \o "USD=X"
    ELSE IF category = "crypto" THEN asset \o "-USD"
    ELSE asset

\* ticker.replace(pattern, ""), on the strings the model builds
Replace(ticker, pattern) ==
    LET names == Tickers \cup {""}
    IN  IF \E a \in names : ticker = a \o pattern
        THEN CHOOSE a \in names : ticker = a \o pattern
        ELSE ticker

\* the asset a returned ticker stands for
DecodeTicker(category, ticker) ==
    IF category = "currency" THEN Replace(ticker, "USD=X")
    ELSE IF category = "crypto" THEN Replace(ticker, "-USD")
    ELSE ticker

\* The iteration of the for loop that follows iteration `after` (0: the first)
\* and reaches the fetch: iterations whose category holds no asset besides
\* the base `continue`.  The loop goes on whatever the previous request
\* did (`kind`): a non-2xx status continues, a throw is caught inside.
NextCategoryStopsOnFailure(assetsWithBalances, baseCurrency, after, kind) ==
    LET left == {i \in (after + 1)..Len(Categories) :
                    CategoryAssets(assetsWithBalances, Categories[i], baseCurrency) # <<>>}
    IN  IF left = {} \/ kind \in {"networkError", "httpError"} THEN 0
        ELSE CHOOSE i \in left : \A j \in left : i <= j

NextCategory(assetsWithBalances, baseCurrency, after, kind) ==
    LET left == {i \in (after + 1)..Len(Categories) :
                    CategoryAssets(assetsWithBalances, Categories[i], baseCurrency) # <<>>}
    IN  IF left = {} THEN 0 ELSE CHOOSE i \in left : \A j \in left : i <= j

-----------------------------------------------------------------------------
(* The upstream price provider: what one request can come back with *)

CACHE_DURATION == 24

\* the clock advances in steps of half the cache duration
TickHours == CACHE_DURATION \div 2

MaxTicks == 2

\* a price the provider quotes for an asset at an instant
Quote(asset, now) == Num(TickerRank(asset) + 1 + now \div TickHours)

PriceEntry(category, asset, price) ==
    [ticker |-> EncodeTicker(category, asset), price |-> price, bad |-> FALSE]

\* an array element that is no object: reading its ticker throws
MalformedEntry == [ticker |-> "", price |-> Undefined, bad |-> TRUE]

FullBody(category, categoryAssets, now) ==
    [i \in 1..Len(categoryAssets) |->
        PriceEntry(category, categoryAssets[i], Quote(categoryAssets[i], now))]

\* the bodies of a 2xx answer of /prices/current that parse as an array:
\* every requested ticker; those and the reporting currency itself; the
\* first ticker followed by a malformed element; nothing
CurrentBodies(category, categoryAssets, baseCurrency, now) ==
    LET full == FullBody(category, categoryAssets, now)
    IN  {full,
         Append(full, PriceEntry(category, baseCurrency, Num(3))),
         <<full[1], MalformedEntry>>,
         <<>>}

FailureKinds == {"networkError", "httpError", "notArray"}

CurrentOutcomes(category, categoryAssets, baseCurrency, now) ==
    {[kind |-> k, data |-> <<>>] : k \in FailureKinds}
    \cup {[kind |-> "array", data |-> d] :
            d \in CurrentBodies(category, categoryAssets, baseCurrency, now)}

HistoricalEntry(category, asset, now) ==
    [ticker |-> EncodeTicker(category, asset), timestamp |-> now,
     close |-> Quote(asset, now)]

\* the bodies of a 2xx answer of /prices/historical that parse as an array
HistoricalBodies(category, categoryAssets, now) ==
    {[i \in 1..Len(categoryAssets) |-> HistoricalEntry(category, categoryAssets[i], now)],
     <<>>}

HistoricalOutcomes(category, categoryAssets, now) ==
    {[kind |-> k, data |-> <<>>] : k \in FailureKinds}
    \cup {[kind |-> "array", data |-> d] :
            d \in HistoricalBodies(category, categoryAssets, now)}

-----------------------------------------------------------------------------
(* getAssetRates *)

EmptyCache ==
    [data |-> <<>>, timestamp |-> 0, baseCurrency |-> "", requestedAssets |-> <<>>]

\* the condition under which the cached data is returned
CacheIsValidUpToDuration(cache, assetsWithBalances, baseCurrency, now) ==
    /\ cache.data # <<>>
    /\ cache.baseCurrency = baseCurrency
    /\ now - cache.timestamp <= CACHE_DURATION
    /\ Sorted(assetsWithBalances) = Sorted(cache.requestedAssets)

\* a cache that serves a table only when it prices every requested ticker
CacheIsValidForFullTable(cache, assetsWithBalances, baseCurrency, now) ==
    /\ cache.data # <<>>
    /\ cache.baseCurrency = baseCurrency
    /\ now - cache.timestamp < CACHE_DURATION
    /\ Sorted(assetsWithBalances) = Sorted(cache.requestedAssets)
    /\ \A i \in 1..Len(assetsWithBalances) : HasKey(cache.data[1], assetsWithBalances[i])

CacheIsValid(cache, assetsWithBalances, baseCurrency, now) ==
    /\ cache.data # <<>>
    /\ cache.baseCurrency = baseCurrency
    /\ now - cache.timestamp < CACHE_DURATION
    /\ Sorted(assetsWithBalances) = Sorted(cache.requestedAssets)

\* the body of data.forEach for one element
StorePriceUnguarded(assetRates, priceData, category, baseCurrency) ==
    LET asset == DecodeTicker(category, priceData.ticker)
    IN  IF asset # "" THEN Put(assetRates, asset, priceData.price) ELSE assetRates

StorePrice(assetRates, priceData, category, baseCurrency) ==
    LET asset == DecodeTicker(category, priceData.ticker)
    IN  IF asset # "" /\ asset # baseCurrency
        THEN Put(assetRates, asset, priceData.price)
        ELSE assetRates

\* data.forEach(...): a malformed element throws, which ends the forEach
\* with the earlier elements stored
RECURSIVE StorePrices(_, _, _, _)
StorePrices(assetRates, data, category, baseCurrency) ==
    IF data = <<>> THEN assetRates
    ELSE IF Head(data).bad THEN assetRates
    ELSE StorePrices(StorePrice(assetRates, Head(data), category, baseCurrency),
                     Tail(data), category, baseCurrency)

\* what one category's request leaves in assetRates
AfterResponse(assetRates, outcome, category, baseCurrency) ==
    IF outcome.kind = "array"
    THEN StorePrices(assetRates, outcome.data, category, baseCurrency)
    ELSE assetRates

\* the catch block of the outer try.  No statement under the outer try and
\* outside the inner one throws for a list of strings, so no step of the
\* model comes here.
GetAssetRatesCatch(cache, assetsWithBalances, baseCurrency) ==
    IF cache.data # <<>> /\ cache.baseCurrency = baseCurrency
    THEN cache.data[1]
    ELSE LET others == SelectSeq(assetsWithBalances, LAMBDA a : a # baseCurrency)
             RECURSIVE Fill(_, _)
             Fill(rates, list) ==
                IF list = <<>> THEN rates
                ELSE Fill(Put(rates, Head(list), Num(1)), Tail(list))
         IN  Fill(<<[asset |-> baseCurrency, rate |-> Num(1)]>>, others)

-----------------------------------------------------------------------------
(* The calls.  An async call runs from one await to the next without       *)
(* interruption: from its start to its first fetch, and from each answer   *)
(* to the next fetch or to its return.                                     *)

Callers == {"c1", "c2"}

Bases == {"USD", "EUR"}

RequestLists ==
    {<<>>, <<"EUR">>, <<"EUR", "BTC">>, <<"BTC", "EUR">>, <<"USD", "EUR">>,
     <<"EUR", "EUR">>}

IdleCall ==
    [fn |-> "none", pc |-> "idle", assets |-> <<>>, base |-> "USD", now |-> 0,
     cat |-> 0, assetRates |-> <<>>, outcomes |-> <<>>, result |-> <<>>,
     path |-> "none", cacheBefore |-> EmptyCache]

\* a write that replaces the table and leaves the ticker list of the slot
StoredRatesKeepsTickerList(assetRates, now, baseCurrency, assetsWithBalances) ==
    [data |-> <<assetRates>>, timestamp |-> now, baseCurrency |-> baseCurrency,
     requestedAssets |-> ratesCache.requestedAssets]

\* ratesCache = { data: assetRates, timestamp: now, baseCurrency, requestedAssets }
StoredRates(assetRates, now, baseCurrency, assetsWithBalances) ==
    [data |-> <<assetRates>>, timestamp |-> now, baseCurrency |-> baseCurrency,
     requestedAssets |-> assetsWithBalances]

\* getAssetRates(assets, base) up to its first await, or to its return when
\* it awaits nothing
GetAssetRatesStart(c) ==
    /\ calls[c].pc \in {"idle", "done"}
    /\ \E assets \in RequestLists, base \in Bases :
        LET now   == clock
            fresh == <<[asset |-> base, rate |-> Num(1)]>>
            k     == NextCategory(assets, base, 0, "none")
            call  == [IdleCall EXCEPT !.fn = "getAssetRates", !.assets = assets,
                                      !.base = base, !.now = now,
                                      !.cacheBefore = ratesCache]
        IN  IF Len(assets) = 0
            THEN /\ calls' = [calls EXCEPT ![c] =
                        [call EXCEPT !.pc = "done", !.result = fresh, !.path = "empty"]]
                 /\ UNCHANGED ratesCache
            ELSE IF CacheIsValid(ratesCache, assets, base, now)
            THEN /\ calls' = [calls EXCEPT ![c] =
                        [call EXCEPT !.pc = "done", !.result = ratesCache.data[1],
                                     !.path = "cached"]]
                 /\ UNCHANGED ratesCache
            ELSE IF k = 0
            THEN /\ calls' = [calls EXCEPT ![c] =
                        [call EXCEPT !.pc = "done", !.assetRates = fresh,
                                     !.result = fresh, !.path = "fetched"]]
                 /\ ratesCache' = StoredRates(fresh, now, base, assets)
            ELSE /\ calls' = [calls EXCEPT ![c] =
                        [call EXCEPT !.pc = "awaiting", !.cat = k, !.assetRates = fresh]]
                 /\ UNCHANGED ratesCache
    /\ UNCHANGED <<conv, ledger, balances, replay, clock, chart, db, form>>

\* the answer to the request in flight, then the loop up to the next fetch
\* or to the cache write and the return
GetAssetRatesResponse(c) ==
    /\ calls[c].fn = "getAssetRates"
    /\ calls[c].pc = "awaiting"
    /\ LET call     == calls[c]
           category == Categories[call.cat]
       IN  \E outcome \in CurrentOutcomes(
                            category, CategoryAssets(call.assets, category, call.base),
                            call.base, clock) :
            LET assetRates == AfterResponse(call.assetRates, outcome, category, call.base)
                k          == NextCategory(call.assets, call.base, call.cat, outcome.kind)
                seen       == Append(call.outcomes,
                                     [category |-> category, kind |-> outcome.kind,
                                      data |-> outcome.data])
            IN  IF k = 0
                THEN /\ calls' = [calls EXCEPT ![c] =
                            [call EXCEPT !.pc = "done", !.assetRates = assetRates,
                                         !.outcomes = seen, !.result = assetRates,
                                         !.path = "fetched"]]
                     /\ ratesCache' =
                            StoredRates(assetRates, call.now, call.base, call.assets)
                ELSE /\ calls' = [calls EXCEPT ![c] =
                            [call EXCEPT !.cat = k, !.assetRates = assetRates,
                                         !.outcomes = seen]]
                     /\ UNCHANGED ratesCache
    /\ UNCHANGED <<conv, ledger, balances, replay, clock, chart, db, form>>

\* getHistoricalAssetRates(assets, base, period, interval) up to its first
\* await, or to its return when it awaits nothing
GetHistoricalStart(c) ==
    /\ calls[c].pc \in {"idle", "done"}
    /\ \E assets \in RequestLists, base \in Bases :
        LET k    == NextCategory(assets, base, 0, "none")
            call == [IdleCall EXCEPT !.fn = "getHistoricalAssetRates",
                                     !.assets = assets, !.base = base, !.now = clock,
                                     !.cacheBefore = ratesCache]
        IN  IF Len(assets) = 0
            THEN calls' = [calls EXCEPT ![c] = [call EXCEPT !.pc = "done", !.path = "empty"]]
            ELSE IF k = 0
            THEN calls' = [calls EXCEPT ![c] = [call EXCEPT !.pc = "done", !.path = "fetched"]]
            ELSE calls' = [calls EXCEPT ![c] = [call EXCEPT !.pc = "awaiting", !.cat = k]]
    /\ UNCHANGED <<conv, ledger, balances, replay, ratesCache, clock, chart, db, form>>

\* the answer to the historical request in flight: an array is pushed onto
\* allHistoricalData (result), anything else leaves it as it is
GetHistoricalResponse(c) ==
    /\ calls[c].fn = "getHistoricalAssetRates"
    /\ calls[c].pc = "awaiting"
    /\ LET call     == calls[c]
           category == Categories[call.cat]
       IN  \E outcome \in HistoricalOutcomes(
                            category, CategoryAssets(call.assets, category, call.base),
                            clock) :
            LET all  == IF outcome.kind = "array" THEN call.result \o outcome.data
                        ELSE call.result
                k    == NextCategory(call.assets, call.base, call.cat, outcome.kind)
                seen == Append(call.outcomes,
                               [category |-> category, kind |-> outcome.kind,
                                data |-> outcome.data])
            IN  calls' = [calls EXCEPT ![c] =
                    [call EXCEPT !.pc = IF k = 0 THEN "done" ELSE "awaiting",
                                 !.cat = k, !.outcomes = seen, !.result = all,
                                 !.path = IF k = 0 THEN "fetched" ELSE "none"]]
    /\ UNCHANGED <<conv, ledger, balances, replay, ratesCache, clock, chart, db, form>>

\* time passes between calls (a request takes far less than a tick)
Tick ==
    /\ clock < MaxTicks * TickHours
    /\ \A c \in Callers : calls[c].pc # "awaiting"
    /\ clock' = clock + TickHours
    /\ UNCHANGED <<conv, ledger, balances, replay, ratesCache, calls, chart, db, form>>

-----------------------------------------------------------------------------
(* Date: the calendar and the local-time methods.  An instant is a number  *)
(* of hours since 1970-01-01T00:00Z; tz is the offset of local time, in    *)
(* hours east of UTC, taken as constant over the dates of a calculation.   *)

\* day number of a civil date; a day past the end of its month runs into
\* the next month, as in new Date(y, m, d)
DaysFromCivil(year, month, day) ==
    LET y   == IF month <= 2 THEN year - 1 ELSE year
        era == y \div 400
        yoe == y - era * 400
        mp  == IF month > 2 THEN month - 3 ELSE month + 9
        doy == (153 * mp + 2) \div 5 + day - 1
        doe == yoe * 365 + yoe \div 4 - yoe \div 100 + doy
    IN  era * 146097 + doe - 719468

\* getFullYear(), getMonth() + 1, getDate() of a day number
CivilFromDays(days) ==
    LET z   == days + 719468
        era == z \div 146097
        doe == z - era * 146097
        yoe == (doe - doe \div 1460 + doe \div 36524 - doe \div 146096) \div 365
        doy == doe - (365 * yoe + yoe \div 4 - yoe \div 100)
        mp  == (5 * doy + 2) \div 153
        d   == doy - (153 * mp + 2) \div 5 + 1
        m   == IF mp < 10 THEN mp + 3 ELSE mp - 9
    IN  [year |-> yoe + era * 400 + (IF m <= 2 THEN 1 ELSE 0), month |-> m, day |-> d]

\* the local calendar day of an instant, and its local hour
LocalDay(t, tz) == (t + tz) \div HoursPerDay

LocalHour(t, tz) == (t + tz) % HoursPerDay

\* the instant of a local day and hour
LocalTime(day, hour, tz) == day * HoursPerDay + hour - tz

\* date.setHours(0, 0, 0, 0)
SetHoursZero(t, tz) == LocalTime(LocalDay(t, tz), 0, tz)

\* date.setDate(date.getDate() + n)
AddDays(t, n, tz) == LocalTime(LocalDay(t, tz) + n, LocalHour(t, tz), tz)

\* date.setFullYear(date.getFullYear() - n)
SubtractYears(t, n, tz) ==
    LET c == CivilFromDays(LocalDay(t, tz))
    IN  LocalTime(DaysFromCivil(c.year - n, c.month, c.day), LocalHour(t, tz), tz)

\* new Date(today.getFullYear(), 0, 1)
StartOfYear(t, tz) ==
    LocalTime(DaysFromCivil(CivilFromDays(LocalDay(t, tz)).year, 1, 1), 0, tz)

\* date.toISOString().split("T")[0], as a day number
ToISODate(t) == t \div HoursPerDay

-----------------------------------------------------------------------------
(* calculateHistoricalHoldings and createSimpleHistoricalChart: the window *)

RAdd(a, b) == Rat(a[1] * b[2] + b[1] * a[2], a[2] * b[2])

Min(S) == CHOOSE x \in S : \A y \in S : x <= y

\* firstTransactionDate: null without transactions, else the local midnight
\* of the oldest of the transactions' dates and now
FirstTransactionDate(transactions, now, tz) ==
    IF transactions = <<>> THEN <<>>
    ELSE <<SetHoursZero(
            Min({now} \cup {ParseDate(transactions[i].date) : i \in 1..Len(transactions)}),
            tz)>>

\* Math.ceil((today.getTime() - firstTransactionDate.getTime()) / (1000*60*60*24))
DiffDays(firstTransactionDate, now) ==
    (now - firstTransactionDate + HoursPerDay - 1) \div HoursPerDay

PeriodToFetchAlwaysFiveYears(period, firstTransactionDate, now) ==
    IF period = "all" /\ firstTransactionDate # <<>> THEN "5y" ELSE period

\* periodToFetch
PeriodToFetch(period, firstTransactionDate, now) ==
    IF period = "all" /\ firstTransactionDate # <<>>
    THEN IF DiffDays(firstTransactionDate[1], now) <= 365 THEN "1y"
         ELSE IF DiffDays(firstTransactionDate[1], now) <= 365 * 5 THEN "5y"
         ELSE "5y"
    ELSE period

\* periodStartDate of calculateHistoricalHoldings
PeriodStartDate(period, now, tz) ==
    SetHoursZero(
        CASE period = "30d"  -> AddDays(now, -30, tz)
          [] period = "180d" -> AddDays(now, -180, tz)
          [] period = "ytd"  -> StartOfYear(now, tz)
          [] period = "1y"   -> SubtractYears(now, 1, tz)
          [] period = "5y"   -> SubtractYears(now, 5, tz)
          [] OTHER           -> now,
        tz)

\* startDate of calculateHistoricalHoldings, null when the window is not
\* moved to the first transaction
StartDate(period, firstTransactionDate, now, tz) ==
    IF period = "all" /\ firstTransactionDate # <<>>
    THEN firstTransactionDate
    ELSE IF firstTransactionDate # <<>>
            /\ PeriodStartDate(period, now, tz) < firstTransactionDate[1]
    THEN firstTransactionDate
    ELSE <<>>

\* startDate of createSimpleHistoricalChart
SimpleStartDate(period, firstTransactionDate, now, tz) ==
    LET startDate ==
            SetHoursZero(
                CASE period = "30d"  -> AddDays(now, -30, tz)
                  [] period = "180d" -> AddDays(now, -180, tz)
                  [] period = "ytd"  -> StartOfYear(now, tz)
                  [] period = "1y"   -> SubtractYears(now, 1, tz)
                  [] period = "5y"   -> SubtractYears(now, 5, tz)
                  [] OTHER           -> IF firstTransactionDate # <<>>
                                        THEN firstTransactionDate[1]
                                        ELSE AddDays(now, -365, tz),
                tz)
    IN  IF firstTransactionDate # <<>> /\ startDate < firstTransactionDate[1]
        THEN firstTransactionDate[1]
        ELSE startDate

\* the dates of a loop that starts at first and adds a day while the date
\* is not after last
RECURSIVE DailyDates(_, _, _)
DailyDates(first, last, tz) ==
    IF first > last THEN <<>>
    ELSE <<first>> \o DailyDates(AddDays(first, 1, tz), last, tz)

-----------------------------------------------------------------------------
(* calculateHistoricalHoldings: the rates *)

\* [...new Set(allBalances.map((balance) => balance.currency))]
RECURSIVE UniqueAssets(_)
UniqueAssets(allBalances) ==
    IF allBalances = <<>> THEN <<>>
    ELSE LET front == UniqueAssets(SubSeq(allBalances, 1, Len(allBalances) - 1))
             asset == allBalances[Len(allBalances)].currency
         IN  IF Contains(front, asset) THEN front ELSE Append(front, asset)

\* accounts.flatMap((account) => account.balances)
RECURSIVE AllBalances(_)
AllBalances(accounts) ==
    IF accounts = <<>> THEN <<>>
    ELSE Head(accounts).balances \o AllBalances(Tail(accounts))

\* the tables a getAssetRates call that fetches can return: one per choice
\* of an outcome for each request it makes
RECURSIVE GetAssetRatesResults(_, _, _, _, _)
GetAssetRatesResults(assetsWithBalances, baseCurrency, now, after, assetRates) ==
    LET k == NextCategory(assetsWithBalances, baseCurrency, after, "none")
    IN  IF k = 0 THEN {assetRates}
        ELSE UNION {GetAssetRatesResults(
                        assetsWithBalances, baseCurrency, now, k,
                        AfterResponse(assetRates, outcome, Categories[k], baseCurrency)) :
                    outcome \in CurrentOutcomes(
                        Categories[k],
                        CategoryAssets(assetsWithBalances, Categories[k], baseCurrency),
                        baseCurrency, now)}

\* uniqueAssets.forEach((asset) => { if (!currentRates[asset]) currentRates[asset] = 1 })
RECURSIVE FillMissingRates(_, _)
FillMissingRates(currentRates, uniqueAssets) ==
    IF uniqueAssets = <<>> THEN currentRates
    ELSE FillMissingRates(
            IF Truthy(Get(currentRates, Head(uniqueAssets))) THEN currentRates
            ELSE Put(currentRates, Head(uniqueAssets), Num(1)),
            Tail(uniqueAssets))

\* rate.date || rate.timestamp: absent, or a string.  A string is a number
\* here: the instant it denotes, or a negative number for a string that
\* new Date() cannot parse.
DateString(rate) == rate.date

\* !isNaN(new Date(dateString).getTime())
IsValidDate(dateString) == dateString[1] >= 0

\* uniqueDates
UniqueDates(historicalRates) ==
    {DateString(historicalRates[i]) : i \in 1..Len(historicalRates)}

\* rate.close || rate.price
RateValue(rate) ==
    IF rate.close # Undefined /\ Truthy(rate.close) THEN rate.close ELSE rate.price

\* assetSymbol
AssetSymbol(ticker) ==
    IF Replace(ticker, "USD=X") # ticker THEN Replace(ticker, "USD=X")
    ELSE IF Replace(ticker, "-USD") # ticker THEN Replace(ticker, "-USD")
    ELSE ticker

\* the keys of ratesByTimestamp
Timestamps(historicalRates) ==
    {DateString(historicalRates[i])[1] : i \in
        {j \in 1..Len(historicalRates) :
            /\ DateString(historicalRates[j]) # <<>>
            /\ IsValidDate(DateString(historicalRates[j]))}}

\* ratesByTimestamp.get(timestamp) after the grouping forEach: a copy of
\* currentRates, overwritten by the samples of that timestamp in order
RECURSIVE RatesByTimestamp(_, _, _)
RatesByTimestamp(historicalRates, timestamp, currentRates) ==
    IF historicalRates = <<>> THEN currentRates
    ELSE LET rate  == historicalRates[Len(historicalRates)]
             rates == RatesByTimestamp(
                        SubSeq(historicalRates, 1, Len(historicalRates) - 1),
                        timestamp, currentRates)
         IN  IF DateString(rate) = <<timestamp>> /\ RateValue(rate) # Undefined
             THEN Put(rates, AssetSymbol(rate.ticker), RateValue(rate))
             ELSE rates

\* Array.from(ratesByTimestamp.keys()).sort()
RECURSIVE SortedTimestamps(_)
SortedTimestamps(timestamps) ==
    IF timestamps = {} THEN <<>>
    ELSE <<Min(timestamps)>> \o SortedTimestamps(timestamps \ {Min(timestamps)})

\* the loop of findClosestRates with no test of the sign of diff: the nearest
\* sample on either side of the target
RECURSIVE ClosestTimestampOnEitherSide(_, _, _)
ClosestTimestampOnEitherSide(sortedTimestamps, targetTime, closestTimestamp) ==
    IF sortedTimestamps = <<>> THEN closestTimestamp
    ELSE LET diff == targetTime - Head(sortedTimestamps)
         IN  ClosestTimestampOnEitherSide(
                Tail(sortedTimestamps), targetTime,
                IF closestTimestamp = <<>>
                    \/ Abs(diff) < Abs(targetTime - closestTimestamp[1])
                THEN <<Head(sortedTimestamps)>>
                ELSE closestTimestamp)

\* the loop of findClosestRates over sortedTimestamps: closestTimestamp is
\* null (<<>>) while closestDiff is Infinity
RECURSIVE ClosestTimestamp(_, _, _)
ClosestTimestamp(sortedTimestamps, targetTime, closestTimestamp) ==
    IF sortedTimestamps = <<>> THEN closestTimestamp
    ELSE LET diff == targetTime - Head(sortedTimestamps)
         IN  ClosestTimestamp(
                Tail(sortedTimestamps), targetTime,
                IF diff >= 0
                    /\ (closestTimestamp = <<>> \/ diff < targetTime - closestTimestamp[1])
                THEN <<Head(sortedTimestamps)>>
                ELSE closestTimestamp)

\* findClosestRates(targetDate)
FindClosestRates(historicalRates, currentRates, targetDate) ==
    LET closestTimestamp ==
            ClosestTimestamp(SortedTimestamps(Timestamps(historicalRates)),
                             targetDate, <<>>)
    IN  IF closestTimestamp # <<>>
        THEN RatesByTimestamp(historicalRates, closestTimestamp[1], currentRates)
        ELSE currentRates

-----------------------------------------------------------------------------
(* calculateHistoricalHoldings and createSimpleHistoricalChart: the series *)

\* totalValue after the accounts.forEach / balances.forEach of
\* calculatePortfolioValueAtDate
RECURSIVE SumAssetValues(_, _, _, _, _)
SumAssetValues(allBalances, transactions, rates, mainCurrency, targetDate) ==
    IF allBalances = <<>> THEN Num(0)
    ELSE LET balance == allBalances[Len(allBalances)]
         IN  RAdd(SumAssetValues(SubSeq(allBalances, 1, Len(allBalances) - 1),
                                 transactions, rates, mainCurrency, targetDate),
                  calculateAssetValueAtDate(
                      balance, TransactionsOf(transactions, balance.id), rates,
                      mainCurrency, targetDate))

calculatePortfolioValueAtDate(accounts, transactions, rates, mainCurrency, targetDate) ==
    SumAssetValues(AllBalances(accounts), transactions, rates, mainCurrency, targetDate)

\* the entries dataPoint[`${account.name}_${balance.currency}`] = assetValue
\* of one account, then of every account, in order
RECURSIVE BalanceEntries(_, _, _, _, _, _, _)
BalanceEntries(entries, name, accountBalances, transactions, rates, mainCurrency, date) ==
    IF accountBalances = <<>> THEN entries
    ELSE LET balance == Head(accountBalances)
         IN  BalanceEntries(
                Put(entries, name \o "_" \o balance.currency,
                    calculateAssetValueAtDate(
                        balance, TransactionsOf(transactions, balance.id), rates,
                        mainCurrency, date)),
                name, Tail(accountBalances), transactions, rates, mainCurrency, date)

RECURSIVE AssetEntries(_, _, _, _, _, _)
AssetEntries(entries, accounts, transactions, rates, mainCurrency, date) ==
    IF accounts = <<>> THEN entries
    ELSE AssetEntries(
            BalanceEntries(entries, Head(accounts).name, Head(accounts).balances,
                           transactions, rates, mainCurrency, date),
            Tail(accounts), transactions, rates, mainCurrency, date)

\* portfolioValue of one date of createSimpleHistoricalChart
RECURSIVE SumBalances(_, _, _, _, _)
SumBalances(allBalances, transactions, rates, mainCurrency, dateString) ==
    IF allBalances = <<>> THEN Num(0)
    ELSE LET balance == allBalances[Len(allBalances)]
         IN  RAdd(SumBalances(SubSeq(allBalances, 1, Len(allBalances) - 1),
                              transactions, rates, mainCurrency, dateString),
                  convertCurrency(
                      Num(calculateBalanceAtDate(
                            balance, TransactionsOf(transactions, balance.id),
                            ParseDate(dateString))),
                      balance.currency, mainCurrency, rates))

KeepLeadingZero(historicalData) == historicalData

\* if (historicalData.length > 0 && historicalData[0].totalValue === 0) historicalData.shift()
ShiftLeadingZero(historicalData) ==
    IF historicalData # <<>> /\ historicalData[1].totalValue = Num(0)
    THEN Tail(historicalData) ELSE historicalData

createSimpleHistoricalChart(accounts, transactions, mainCurrency, period, currentRates, now, tz) ==
    LET startDate == SimpleStartDate(
                        period, FirstTransactionDate(transactions, now, tz), now, tz)
        dates     == DailyDates(startDate, now, tz)
    IN  ShiftLeadingZero(
            [i \in 1..Len(dates) |->
                [date       |-> ToISODate(dates[i]),
                 totalValue |-> SumBalances(AllBalances(accounts), transactions,
                                            currentRates, mainCurrency,
                                            ToISODate(dates[i])),
                 assets     |-> <<>>]])

\* today.setHours(23, 59, 59, 999): the last hour of the local day
EndOfToday(now, tz) == LocalTime(LocalDay(now, tz), HoursPerDay - 1, tz)

\* datesToProcess
DatesToProcess(startDate, historicalRates, now, tz) ==
    IF startDate # <<>>
    THEN DailyDates(SetHoursZero(startDate[1], tz), EndOfToday(now, tz), tz)
    ELSE SortedTimestamps(Timestamps(historicalRates))

\* which return statement of calculateHistoricalHoldings is reached once
\* the historical rates are in
HoldingsPath(historicalRates) ==
    IF Len(historicalRates) = 0 THEN "simple"
    ELSE IF Len(historicalRates) = 1 THEN "simple"
    ELSE IF Cardinality(UniqueDates(historicalRates)) < 3 THEN "simple"
    ELSE IF Timestamps(historicalRates) = {} THEN "none"
    ELSE "rich"

\* the series of the rich path
RichSeries(accounts, transactions, mainCurrency, period, currentRates, historicalRates, now, tz) ==
    LET startDate == StartDate(period, FirstTransactionDate(transactions, now, tz), now, tz)
        dates     == DatesToProcess(startDate, historicalRates, now, tz)
    IN  ShiftLeadingZero(
            [i \in 1..Len(dates) |->
                LET rates == FindClosestRates(historicalRates, currentRates, dates[i])
                IN  [date       |-> ToISODate(dates[i]),
                     totalValue |-> calculatePortfolioValueAtDate(
                                        accounts, transactions, rates, mainCurrency,
                                        dates[i]),
                     assets     |-> AssetEntries(<<>>, accounts, transactions, rates,
                                                 mainCurrency, dates[i])]])

\* calculateHistoricalHoldings from the return of getHistoricalAssetRates on
calculateHistoricalHoldings(accounts, transactions, mainCurrency, period, currentRates, historicalRates, now, tz) ==
    CASE HoldingsPath(historicalRates) = "simple" ->
            createSimpleHistoricalChart(accounts, transactions, mainCurrency, period,
                                        currentRates, now, tz)
      [] HoldingsPath(historicalRates) = "none" -> <<>>
      [] OTHER ->
            RichSeries(accounts, transactions, mainCurrency, period, currentRates,
                       historicalRates, now, tz)

-----------------------------------------------------------------------------
(* Inputs of the chart specification *)

\* the day the chart is drawn: 2024-01-10, at 15:00 UTC
ChartToday == DaysFromCivil(2024, 1, 10)

ChartNow == ParseDate(ChartToday) + 15

\* local time: New York, UTC, Rome in summer
TimezoneOffsets == {-5, 0, 2}

Periods == {"30d", "180d", "ytd", "1y", "5y", "all"}

\* 40 days ago, 2024-01-01, three days ago, today
ChartTxDates == {ChartToday - 40, DaysFromCivil(2024, 1, 1), ChartToday - 3, ChartToday}

ChartRows ==
    [type : {"income"}, amount : {1000}, account_balance_id : {"A"},
     to_account_balance_id : {NullId}, to_amount : {<<>>}, date : ChartTxDates]
    \cup
    [type : {"expense"}, amount : {1000}, account_balance_id : {"A"},
     to_account_balance_id : {NullId}, to_amount : {<<>>},
     date : {ChartToday - 3, ChartToday}]
    \cup
    [type : {"income"}, amount : {50}, account_balance_id : {"B"},
     to_account_balance_id : {NullId}, to_amount : {<<>>},
     date : {DaysFromCivil(2024, 1, 1), ChartToday - 3}]
    \cup
    [type : {"transfer"}, amount : {100}, account_balance_id : {"A"},
     to_account_balance_id : {"B"}, to_amount : {<<90>>}, date : {ChartToday - 3}]

\* the ledgers of one or two rows
ChartLedgers ==
    {<<r>> : r \in ChartRows} \cup {<<r1, r2>> : r1 \in ChartRows, r2 \in ChartRows}

\* one account holding the USD balance, or the USD and the EUR balance, or
\* those and a second account of the same name (accounts.name is not unique)
\* holding a USD balance without transactions
ChartPortfolios ==
    {<<[name |-> "Main", balances |-> <<BalanceRow("A")>>]>>,
     <<[name |-> "Main", balances |-> <<BalanceRow("A"), BalanceRow("B")>>]>>,
     <<[name |-> "Main", balances |-> <<BalanceRow("A"), BalanceRow("B")>>],
       [name |-> "Main",
        balances |-> <<[id |-> "C", currency |-> "USD", current_balance |-> 0]>>]>>}

Sample(asset, dateString, close) ==
    [ticker |-> EncodeTicker(findAssetCategory(asset), asset), date |-> dateString,
     close |-> close, price |-> Undefined]

\* what getHistoricalAssetRates can return for the assets: nothing when no
\* asset but the reporting currency is held; else nothing, one sample, two
\* samples of one or of two timestamps, three or four samples of two or of
\* three timestamps, two dated samples and one without a date, and three
\* samples whose dates do not parse.  The timestamps are midnights of the
\* last five days, inside every period, and once 04:00 of a day that also
\* has a sample at midnight (an intraday interval).
ChartHistoricalAnswers(uniqueAssets, mainCurrency, now) ==
    LET others == SelectSeq(uniqueAssets, LAMBDA a : a # mainCurrency)
        t1     == ParseDate(ToISODate(now) - 5)
        t2     == ParseDate(ToISODate(now) - 2)
        t3     == ParseDate(ToISODate(now) - 1)
        S(t)   == Sample(others[1], <<t>>, Quote(others[1], t))
    IN  IF others = <<>> THEN {<<>>}
        ELSE {<<>>,
              <<S(t1)>>,
              <<S(t1), S(t1)>>,
              <<S(t1), S(t2)>>,
              <<S(t1), S(t2), S(t2)>>,
              <<S(t1), S(t2), S(t3)>>,
              <<S(t2), S(t2 + 4), S(t3)>>,
              <<S(t1), S(t2), Sample(others[1], <<>>, Num(7))>>,
              <<Sample(others[1], <<-1>>, Num(7)), Sample(others[1], <<-2>>, Num(7)),
                Sample(others[1], <<-3>>, Num(7))>>}

ChartNone ==
    [pc |-> "idle", tz |-> 0, accounts |-> <<>>, period |-> "30d",
     mainCurrency |-> "USD", now |-> 0, fetchedRates |-> <<>>, currentRates |-> <<>>,
     periodToFetch |-> "30d", historicalRates |-> <<>>, path |-> "none",
     result |-> <<>>]

\* calculateHistoricalHoldings up to its await of getHistoricalAssetRates:
\* the getAssetRates call (served from the cache or fetched, and cached),
\* the rate 1 written into the returned table for every asset without a
\* rate - the table is the object the cache slot holds - and the period
\* to fetch
CalculateHistoricalHoldingsStart ==
    /\ chart.pc = "idle"
    /\ chart.accounts # <<>>
    /\ \E period \in Periods, mainCurrency \in {"USD"} :
        LET uniqueAssets == UniqueAssets(AllBalances(chart.accounts))
            now          == clock
            first        == FirstTransactionDate(ledger, now, chart.tz)
        IN  \E fetched \in
                IF CacheIsValid(ratesCache, uniqueAssets, mainCurrency, now)
                THEN {ratesCache.data[1]}
                ELSE GetAssetRatesResults(uniqueAssets, mainCurrency, now, 0,
                                          <<[asset |-> mainCurrency, rate |-> Num(1)]>>) :
                LET currentRates == FillMissingRates(fetched, uniqueAssets)
                IN  /\ chart' = [chart EXCEPT
                            !.pc = "awaitingHistorical", !.period = period,
                            !.mainCurrency = mainCurrency, !.now = now,
                            !.fetchedRates = fetched, !.currentRates = currentRates,
                            !.periodToFetch = PeriodToFetch(period, first, now)]
                    /\ ratesCache' =
                        IF CacheIsValid(ratesCache, uniqueAssets, mainCurrency, now)
                        THEN [ratesCache EXCEPT !.data = <<currentRates>>]
                        ELSE StoredRates(currentRates, now, mainCurrency, uniqueAssets)
    /\ UNCHANGED <<conv, ledger, balances, replay, clock, calls, db, form>>

\* the rest of calculateHistoricalHoldings, from the return of
\* getHistoricalAssetRates to its own
CalculateHistoricalHoldingsFinish ==
    /\ chart.pc = "awaitingHistorical"
    /\ \E historicalRates \in
            ChartHistoricalAnswers(UniqueAssets(AllBalances(chart.accounts)),
                                   chart.mainCurrency, chart.now) :
        chart' = [chart EXCEPT
            !.pc = "done", !.historicalRates = historicalRates,
            !.path = HoldingsPath(historicalRates),
            !.result = calculateHistoricalHoldings(
                            chart.accounts, ledger, chart.mainCurrency, chart.period,
                            chart.currentRates, historicalRates, chart.now, chart.tz)]
    /\ UNCHANGED <<conv, ledger, balances, replay, ratesCache, clock, calls, db, form>>

-----------------------------------------------------------------------------
(* Database: the tables, their row locks and the trigger update_account_balance *)

Accounts == {"acc1"}

\* the ids gen_random_uuid() hands out, in the order they are handed out
BalanceIdPool == <<"b1", "b2", "b3", "b4", "b5">>

TransactionIdPool == <<"t1", "t2", "t3", "t4", "t5">>

MaxBalanceRows == 2

MaxDbTx == 2

\* the browser tabs that talk to the database at the same time
Sessions == {"s1", "s2"}

HasRow(table, id) == \E r \in table : r.id = id

RowOf(table, id) == CHOOSE r \in table : r.id = id

\* a row of public.account_balances
AccountBalanceRow(id, account, category, ticker, amount) ==
    [id |-> id, account_id |-> account, category |-> category,
     currency |-> ticker, current_balance |-> amount]

\* the date the form proposes: today
DbToday == ChartToday

NoFormData ==
    [account_id |-> NullId, account_balance_id |-> NullId, type |-> "none",
     amount |-> 0, currency |-> "", date |-> DbToday, to_account_id |-> NullId,
     to_account_balance_id |-> NullId, to_amount |-> <<>>, to_currency |-> ""]

\* a connection that runs no request.  Of an open transaction: old and new are
\* the OLD and NEW of the trigger, fired the UPDATE statements the trigger has to
\* run and updates those not run yet, written its uncommitted row versions,
\* locked / txlocked / keyshare the row locks it holds, deleting / txdeleting /
\* accdeleting the rows its DELETE and the cascades remove
IdleSession ==
    [pc |-> "idle", formData |-> NoFormData, editing |-> NullId,
     statement |-> "none", old |-> <<>>, new |-> <<>>, fired |-> <<>>, updates |-> <<>>,
     written |-> {}, locked |-> {}, txlocked |-> {}, keyshare |-> {},
     deleting |-> {}, txdeleting |-> {}, accdeleting |-> {},
     target |-> [accounts |-> {}, balances |-> {}, transactions |-> {}]]

EmptyDb ==
    [accounts |-> {}, account_balances |-> {}, transactions |-> {},
     issued_balances |-> 0, issued_transactions |-> 0,
     sessions |-> [s \in Sessions |-> IdleSession]]

Negate(amount) == IF amount = <<>> THEN <<>> ELSE <<0 - amount[1]>>

\* the UPDATE statements the trigger runs to apply a row, in order
ApplyRow(row) ==
    IF row.type = "income"
    THEN <<[id |-> row.account_balance_id, delta |-> <<row.amount>>]>>
    ELSE IF row.type = "expense" \/ row.type = "taxation"
    THEN <<[id |-> row.account_balance_id, delta |-> <<0 - row.amount>>]>>
    ELSE IF row.type = "transfer"
    THEN <<[id |-> row.account_balance_id, delta |-> <<0 - row.amount>>],
           [id |-> row.to_account_balance_id, delta |-> row.to_amount]>>
    ELSE <<>>

\* the UPDATE statements the trigger runs to reverse a row, in order
ReverseRow(row) ==
    IF row.type = "income"
    THEN <<[id |-> row.account_balance_id, delta |-> <<0 - row.amount>>]>>
    ELSE IF row.type = "expense" \/ row.type = "taxation"
    THEN <<[id |-> row.account_balance_id, delta |-> <<row.amount>>]>>
    ELSE IF row.type = "transfer"
    THEN <<[id |-> row.account_balance_id, delta |-> <<row.amount>>],
           [id |-> row.to_account_balance_id, delta |-> Negate(row.to_amount)]>>
    ELSE <<>>

\* an update that only applies the new row and forgets to reverse the old one
UpdateAppliesNewRowOnly(tgOp, old, new) ==
    IF tgOp = "INSERT" THEN ApplyRow(new)
    ELSE IF tgOp = "UPDATE" THEN ApplyRow(new)
    ELSE IF tgOp = "DELETE" THEN ReverseRow(old)
    ELSE <<>>

\* update_account_balance() for one row, as the list of its UPDATE statements
update_account_balance(tgOp, old, new) ==
    IF tgOp = "INSERT" THEN ApplyRow(new)
    ELSE IF tgOp = "UPDATE" THEN ReverseRow(old) \o ApplyRow(new)
    ELSE IF tgOp = "DELETE" THEN ReverseRow(old)
    ELSE <<>>

\* rows taken in the order of their ids
RECURSIVE RowsInOrder(_, _)
RowsInOrder(table, pool) ==
    IF pool = <<>> THEN <<>>
    ELSE (IF HasRow(table, Head(pool)) THEN <<RowOf(table, Head(pool))>> ELSE <<>>)
            \o RowsInOrder(table, Tail(pool))

\* the trigger fired FOR EACH ROW of a DELETE
RECURSIVE ReverseRows(_)
ReverseRows(rows) ==
    IF rows = <<>> THEN <<>>
    ELSE update_account_balance("DELETE", Head(rows), <<>>) \o ReverseRows(Tail(rows))

\* a row lock that is never honoured: every writer proceeds at once
NoRowLock(s, id) == FALSE

\* another open transaction holds the row lock of account_balances row id
LockedByOther(s, id) ==
    \E o \in Sessions \ {s} :
        id \in db.sessions[o].locked \cup db.sessions[o].deleting

\* another open transaction holds a key-share lock (foreign key check) on the row
KeySharedByOther(s, id) == \E o \in Sessions \ {s} : id \in db.sessions[o].keyshare

TxLockedByOther(s, id) ==
    \E o \in Sessions \ {s} :
        id \in db.sessions[o].txlocked \cup db.sessions[o].txdeleting

\* the row an UPDATE ... WHERE id = ... of session s matches, if any
Matches(s, id) ==
    /\ id # NullId
    /\ HasRow(db.account_balances, id)
    /\ id \notin db.sessions[s].deleting

\* current_balance of the row as the open transaction of s sees it
SeenBalance(s, id) ==
    IF \E w \in db.sessions[s].written : w.id = id
    THEN (CHOOSE w \in db.sessions[s].written : w.id = id).current_balance
    ELSE RowOf(db.account_balances, id).current_balance

WriteBalance(written, id, value) ==
    {w \in written : w.id # id} \cup {[id |-> id, current_balance |-> value]}

DbTickers == {"USD", "EUR"}

\* the amount typed in, by the type of the transaction
DbAmount == [type \in {"income", "expense", "transfer"} |->
                IF type = "expense" THEN 30 ELSE 100]

\* what TransactionForm.handleSubmit hands to onSubmit for an income or a
\* transfer: the balance to provision is named by its ticker, its id is cleared
ProvisioningForms ==
    {[NoFormData EXCEPT !.account_id = a, !.type = "income",
                        !.amount = DbAmount["income"], !.currency = c] :
        a \in db.accounts, c \in DbTickers}
    \cup
    {[NoFormData EXCEPT !.account_id = r.account_id, !.account_balance_id = r.id,
                        !.type = "transfer", !.amount = DbAmount["transfer"],
                        !.currency = r.currency,
                        !.to_account_id = a, !.to_amount = <<90>>, !.to_currency = c] :
        r \in db.account_balances, a \in db.accounts, c \in DbTickers}

\* and for an expense, on one of the balances on screen (a taxation is the same
\* form, and the trigger has one branch for the two types)
SpendingForms ==
    {[NoFormData EXCEPT !.account_id = r.account_id, !.account_balance_id = r.id,
                        !.type = "expense", !.amount = DbAmount["expense"],
                        !.currency = r.currency] :
        r \in db.account_balances}

\* editingTransaction: none, or one of the rows on screen
Editable == {NullId} \cup {t.id : t \in db.transactions}

NoTarget == [accounts |-> {}, balances |-> {}, transactions |-> {}]

\* the pair (account, ticker) whose balance handleSubmit provisions
UpsertAccount(formData) ==
    IF formData.type = "income" THEN formData.account_id ELSE formData.to_account_id

UpsertTicker(formData) ==
    IF formData.type = "income" THEN formData.currency ELSE formData.to_currency

\* an upsert that never sees the row that is already there
ConflictingRowsNeverFound(table, account, category, ticker) == {}

\* the rows the ON CONFLICT (account_id, category, currency) clause finds
ConflictingRows(table, account, category, ticker) ==
    {r \in table : r.account_id = account /\ r.category = category /\ r.currency = ticker}

WithBalanceId(formData, id) ==
    IF formData.type = "income"
    THEN [formData EXCEPT !.account_balance_id = id]
    ELSE [formData EXCEPT !.to_account_balance_id = id]

\* the upsert into account_balances of handleSubmit, one request of its own
UpsertRequest(s, formData, editing) ==
    LET account == UpsertAccount(formData)
        ticker == UpsertTicker(formData)
        category == findAssetCategory(ticker)
        found == ConflictingRows(db.account_balances, account, category, ticker)
        id == BalanceIdPool[db.issued_balances + 1]
        next == [IdleSession EXCEPT !.pc = "write", !.editing = editing]
    IN  /\ \A o \in Sessions \ {s} : account \notin db.sessions[o].accdeleting
        /\ IF account \notin db.accounts
           THEN \* foreign key violation: upsertSourceErr is thrown
                db' = [db EXCEPT !.sessions[s] = IdleSession]
           ELSE IF found # {}
           THEN /\ \A r \in found : ~LockedByOther(s, r.id)
                /\ db' = [db EXCEPT !.sessions[s] =
                        [next EXCEPT !.formData =
                            WithBalanceId(formData, (CHOOSE r \in found : TRUE).id)]]
           ELSE /\ db.issued_balances < MaxBalanceRows
                /\ db' = [db EXCEPT
                        !.account_balances =
                            @ \cup {AccountBalanceRow(id, account, category, ticker, 0)},
                        !.issued_balances = @ + 1,
                        !.sessions[s] =
                            [next EXCEPT !.formData = WithBalanceId(formData, id)]]

\* insertData / updateData of handleSubmit
TransactionData(formData) ==
    IF formData.type = "transfer"
    THEN [account_id |-> formData.account_id,
          account_balance_id |-> formData.account_balance_id,
          type |-> formData.type, amount |-> formData.amount,
          currency |-> formData.currency, date |-> formData.date,
          to_account_id |-> formData.to_account_id,
          to_account_balance_id |-> formData.to_account_balance_id,
          to_amount |-> formData.to_amount, to_currency |-> formData.to_currency]
    ELSE [account_id |-> formData.account_id,
          account_balance_id |-> formData.account_balance_id,
          type |-> formData.type, amount |-> formData.amount,
          currency |-> formData.currency, date |-> formData.date]

\* the row an INSERT of the data makes: columns not named take their default
InsertedRow(id, data) ==
    [id |-> id, account_id |-> data.account_id,
     account_balance_id |-> data.account_balance_id, type |-> data.type,
     amount |-> data.amount, currency |-> data.currency, date |-> data.date,
     to_account_id |-> IF "to_account_id" \in DOMAIN data
                       THEN data.to_account_id ELSE NullId,
     to_account_balance_id |-> IF "to_account_balance_id" \in DOMAIN data
                               THEN data.to_account_balance_id ELSE NullId,
     to_amount |-> IF "to_amount" \in DOMAIN data THEN data.to_amount ELSE <<>>,
     to_currency |-> IF "to_currency" \in DOMAIN data THEN data.to_currency ELSE ""]

\* the row an UPDATE of the data makes: columns not named keep their value
UpdatedRow(old, data) ==
    [column \in DOMAIN old |->
        IF column \in DOMAIN data THEN data[column] ELSE old[column]]

\* the rows of other tables a transactions row must find (foreign keys)
ReferencedBalances(row) ==
    {row.account_balance_id} \cup
        (IF row.to_account_balance_id = NullId THEN {} ELSE {row.to_account_balance_id})

ReferencedAccounts(row) ==
    {row.account_id} \cup (IF row.to_account_id = NullId THEN {} ELSE {row.to_account_id})

ForeignKeysHold(row) ==
    /\ \A id \in ReferencedBalances(row) : HasRow(db.account_balances, id)
    /\ ReferencedAccounts(row) \subseteq db.accounts

\* another open transaction is deleting a row that this row refers to
ReferencedRowBeingDeleted(s, row) ==
    \E o \in Sessions \ {s} :
        \/ ReferencedBalances(row) \cap db.sessions[o].deleting # {}
        \/ ReferencedAccounts(row) \cap db.sessions[o].accdeleting # {}

\* the INSERT or UPDATE of handleSubmit, up to the firing of the trigger
WriteRequest(s, formData, editing) ==
    LET data == TransactionData(formData)
        id == TransactionIdPool[db.issued_transactions + 1]
        inserted == InsertedRow(id, data)
        old == RowOf(db.transactions, editing)
        updated == UpdatedRow(old, data)
        next == [IdleSession EXCEPT
                    !.pc = "trigger", !.formData = formData, !.editing = editing]
    IN  IF editing = NullId
        THEN /\ db.issued_transactions < MaxDbTx
             /\ ~ReferencedRowBeingDeleted(s, inserted)
             /\ IF ~ForeignKeysHold(inserted)
                THEN db' = [db EXCEPT !.sessions[s] = IdleSession]
                ELSE db' = [db EXCEPT
                        !.issued_transactions = @ + 1,
                        !.sessions[s] =
                            [next EXCEPT
                                !.statement = "INSERT",
                                !.new = <<inserted>>,
                                !.keyshare = ReferencedBalances(inserted)
                                                \cup ReferencedAccounts(inserted),
                                !.fired =
                                    update_account_balance("INSERT", <<>>, inserted),
                                !.updates =
                                    update_account_balance("INSERT", <<>>, inserted)]]
        ELSE /\ ~TxLockedByOther(s, editing)
             /\ IF ~HasRow(db.transactions, editing)
                THEN \* no row matches .eq("id", ...): nothing is updated
                     db' = [db EXCEPT !.sessions[s] = IdleSession]
                ELSE /\ ~ReferencedRowBeingDeleted(s, updated)
                     /\ IF ~ForeignKeysHold(updated)
                        THEN db' = [db EXCEPT !.sessions[s] = IdleSession]
                        ELSE db' = [db EXCEPT !.sessions[s] =
                                [next EXCEPT
                                    !.statement = "UPDATE",
                                    !.old = <<old>>,
                                    !.new = <<updated>>,
                                    !.txlocked = {editing},
                                    !.keyshare = ReferencedBalances(updated)
                                                    \cup ReferencedAccounts(updated),
                                    !.fired =
                                        update_account_balance("UPDATE", old, updated),
                                    !.updates =
                                        update_account_balance("UPDATE", old, updated)]]

\* handleSubmit for an income or a transfer, up to the answer of its upsert
HandleSubmitProvision(s) ==
    /\ db.sessions[s].pc = "idle"
    /\ \E formData \in ProvisioningForms : \E editing \in Editable :
            UpsertRequest(s, formData, editing)
    /\ UNCHANGED <<conv, ledger, balances, replay, ratesCache, clock, calls, chart, form>>

\* handleSubmit for an income or a transfer, from the answer of its upsert on
HandleSubmitWrite(s) ==
    /\ db.sessions[s].pc = "write"
    /\ WriteRequest(s, db.sessions[s].formData, db.sessions[s].editing)
    /\ UNCHANGED <<conv, ledger, balances, replay, ratesCache, clock, calls, chart, form>>

\* handleSubmit for an expense: no balance to provision
HandleSubmitSpend(s) ==
    /\ db.sessions[s].pc = "idle"
    /\ \E formData \in SpendingForms : \E editing \in Editable :
            WriteRequest(s, formData, editing)
    /\ UNCHANGED <<conv, ledger, balances, replay, ratesCache, clock, calls, chart, form>>

\* validateForm of TransactionForm, on the balances the page has loaded:
\* the amounts are positive, and the amount of an expense, a taxation or a
\* transfer does not exceed the balance on screen, to which the amount of
\* the edited transaction is added when the type is unchanged
validateForm(formData, editing, accountBalances) ==
    /\ formData.account_id # NullId
    /\ formData.type = "transfer" =>
            (formData.to_amount # <<>> /\ formData.to_amount[1] > 0)
    /\ formData.amount > 0
    /\ (/\ formData.type \in {"expense", "taxation", "transfer"}
        /\ formData.account_balance_id # NullId
        /\ \E b \in accountBalances :
                b.id = formData.account_balance_id /\ b.account_id = formData.account_id)
        => LET selectedBalance == RowOf(accountBalances, formData.account_balance_id)
               availableBalance ==
                    IF editing # NullId
                        /\ RowOf(db.transactions, editing).type = formData.type
                    THEN selectedBalance.current_balance
                            + RowOf(db.transactions, editing).amount
                    ELSE selectedBalance.current_balance
           IN  ~(formData.amount > availableBalance)

\* TransactionForm.handleSubmit for an income or a transfer: the validation,
\* then handleSubmit of the page up to the answer of its upsert
SubmitProvision(s) ==
    /\ db.sessions[s].pc = "idle"
    /\ \E formData \in ProvisioningForms : \E editing \in Editable :
        /\ validateForm(formData, editing, db.account_balances)
        /\ UpsertRequest(s, formData, editing)
    /\ UNCHANGED <<conv, ledger, balances, replay, ratesCache, clock, calls, chart, form>>

\* TransactionForm.handleSubmit for an expense: the validation, then
\* handleSubmit of the page
SubmitSpend(s) ==
    /\ db.sessions[s].pc = "idle"
    /\ \E formData \in SpendingForms : \E editing \in Editable :
        /\ validateForm(formData, editing, db.account_balances)
        /\ WriteRequest(s, formData, editing)
    /\ UNCHANGED <<conv, ledger, balances, replay, ratesCache, clock, calls, chart, form>>

\* account_balances.account_id ... ON DELETE CASCADE
CascadedBalances(table, target) ==
    {r.id : r \in {r \in table :
                    r.id \in target.balances \/ r.account_id \in target.accounts}}

\* a cascade that follows only the source column of a transaction
CascadedTransactionsBySourceOnly(table, target, deletedBalances) ==
    {t.id : t \in {t \in table :
                    \/ t.id \in target.transactions
                    \/ t.account_id \in target.accounts
                    \/ t.to_account_id \in target.accounts
                    \/ t.account_balance_id \in deletedBalances}}

\* the four ON DELETE CASCADE columns of transactions
CascadedTransactions(table, target, deletedBalances) ==
    {t.id : t \in {t \in table :
                    \/ t.id \in target.transactions
                    \/ t.account_id \in target.accounts
                    \/ t.to_account_id \in target.accounts
                    \/ t.account_balance_id \in deletedBalances
                    \/ t.to_account_balance_id \in deletedBalances}}

\* a DELETE with its cascades, up to the firing of the trigger for each row
DeleteRequest(s, target) ==
    LET accs == target.accounts \cap db.accounts
        bals == CascadedBalances(db.account_balances, target)
        txs == CascadedTransactions(db.transactions, target, bals)
        rows == {t \in db.transactions : t.id \in txs}
    IN  /\ db.sessions[s].pc = "idle"
        /\ \A id \in bals : ~LockedByOther(s, id)
        /\ \A id \in bals \cup accs : ~KeySharedByOther(s, id)
        /\ \A id \in txs : ~TxLockedByOther(s, id)
        /\ db' = [db EXCEPT !.sessions[s] =
                [IdleSession EXCEPT
                    !.pc = "trigger",
                    !.statement = "DELETE",
                    !.target = target,
                    !.accdeleting = accs,
                    !.deleting = bals,
                    !.txdeleting = txs,
                    !.fired = ReverseRows(RowsInOrder(rows, TransactionIdPool)),
                    !.updates = ReverseRows(RowsInOrder(rows, TransactionIdPool))]]

\* handleDelete of the transactions page
HandleDelete(s) ==
    /\ \E t \in db.transactions :
            DeleteRequest(s, [NoTarget EXCEPT !.transactions = {t.id}])
    /\ UNCHANGED <<conv, ledger, balances, replay, ratesCache, clock, calls, chart, form>>

\* handleDelete of the accounts page
DeleteAccount(s) ==
    /\ \E a \in db.accounts : DeleteRequest(s, [NoTarget EXCEPT !.accounts = {a}])
    /\ UNCHANGED <<conv, ledger, balances, replay, ratesCache, clock, calls, chart, form>>

\* the delete of the removed balances in handleSubmit of the accounts page
DeleteBalances(s) ==
    /\ \E r \in db.account_balances :
            DeleteRequest(s, [NoTarget EXCEPT !.balances = {r.id}])
    /\ UNCHANGED <<conv, ledger, balances, replay, ratesCache, clock, calls, chart, form>>

\* the open transaction of s waits for the row lock of its next UPDATE
Waiting(s) ==
    /\ db.sessions[s].pc = "trigger"
    /\ db.sessions[s].updates # <<>>
    /\ Matches(s, Head(db.sessions[s].updates).id)
    /\ LockedByOther(s, Head(db.sessions[s].updates).id)

\* one UPDATE public.account_balances SET current_balance = current_balance + x
TriggerUpdate(s) ==
    LET ses == db.sessions[s]
        update == Head(ses.updates)
    IN  /\ ses.pc = "trigger"
        /\ ses.updates # <<>>
        /\ IF ~Matches(s, update.id)
           THEN db' = [db EXCEPT !.sessions[s].updates = Tail(@)]
           ELSE /\ ~LockedByOther(s, update.id)
                /\ IF update.delta = <<>>
                   THEN \* current_balance NOT NULL is violated: the statement fails
                        db' = [db EXCEPT !.sessions[s] = IdleSession]
                   ELSE db' = [db EXCEPT
                            !.sessions[s].updates = Tail(@),
                            !.sessions[s].locked = @ \cup {update.id},
                            !.sessions[s].written =
                                WriteBalance(@, update.id,
                                    SeenBalance(s, update.id) + update.delta[1])]
    /\ UNCHANGED <<conv, ledger, balances, replay, ratesCache, clock, calls, chart, form>>

\* the database ends a lock cycle by aborting one of its transactions
DeadlockAbort(s) ==
    /\ Waiting(s)
    /\ \E o \in Sessions \ {s} :
        /\ Waiting(o)
        /\ Head(db.sessions[s].updates).id \in db.sessions[o].locked
        /\ Head(db.sessions[o].updates).id \in db.sessions[s].locked
    /\ db' = [db EXCEPT !.sessions[s] = IdleSession]
    /\ UNCHANGED <<conv, ledger, balances, replay, ratesCache, clock, calls, chart, form>>

\* the tables once the open transaction of s is committed
CommittedBalances(s) ==
    {IF \E w \in db.sessions[s].written : w.id = r.id
     THEN [r EXCEPT !.current_balance =
                (CHOOSE w \in db.sessions[s].written : w.id = r.id).current_balance]
     ELSE r :
        r \in {r \in db.account_balances : r.id \notin db.sessions[s].deleting}}

CommittedTransactions(s) ==
    LET ses == db.sessions[s]
    IN  IF ses.statement = "INSERT" THEN db.transactions \cup {ses.new[1]}
        ELSE IF ses.statement = "UPDATE"
        THEN (db.transactions \ {ses.old[1]}) \cup {ses.new[1]}
        ELSE {t \in db.transactions : t.id \notin ses.txdeleting}

\* the statement of s and its trigger are done: the request commits
Commit(s) ==
    /\ db.sessions[s].pc = "trigger"
    /\ db.sessions[s].updates = <<>>
    /\ db' = [db EXCEPT
            !.accounts = @ \ db.sessions[s].accdeleting,
            !.account_balances = CommittedBalances(s),
            !.transactions = CommittedTransactions(s),
            !.sessions[s] = IdleSession]
    /\ UNCHANGED <<conv, ledger, balances, replay, ratesCache, clock, calls, chart, form>>

-----------------------------------------------------------------------------
(* The accounts page: the form that edits the balances of an account.  The  *)
(* requests of one page run one after the other, each in a transaction of   *)
(* its own, with no other session at work.                                   *)

\* the form as the page first renders it.  origins and confirmed are not
\* state of the page: origins[i] is the balance row entry i was loaded from
\* (NullId for an entry added in the form), confirmed the rows for whose entry
\* the user has confirmed the warning since handleEdit
IdleForm ==
    [pc |-> "idle", editingAccount |-> NullId, currencies |-> <<"USD">>,
     existingCurrencyIds |-> <<>>, showCurrencyRemovalWarning |-> FALSE,
     currencyToRemove |-> <<>>, origins |-> <<NullId>>, confirmed |-> {}]

MaxCurrencies == 3

\* Array.prototype.filter((_, i) => i !== index), index counted from 1
RemoveAt(list, index) ==
    [i \in 1..(Len(list) - 1) |-> IF i < index THEN list[i] ELSE list[i + 1]]

\* Array.prototype.slice(start), start counted from 0
Slice(list, start) ==
    [i \in 1..(IF Len(list) > start THEN Len(list) - start ELSE 0) |-> list[start + i]]

Range(list) == {list[i] : i \in 1..Len(list)}

\* the UPDATE statements of the trigger run one after the other on the table
RECURSIVE RunUpdates(_, _)
RunUpdates(table, updates) ==
    IF updates = <<>> THEN table
    ELSE RunUpdates(
            {IF r.id = Head(updates).id
             THEN [r EXCEPT !.current_balance = @ + Head(updates).delta[1]]
             ELSE r : r \in table},
            Tail(updates))

\* a DELETE with its cascades and its triggers, run to its commit
DeleteNow(database, target) ==
    LET accs == target.accounts \cap database.accounts
        bals == CascadedBalances(database.account_balances, target)
        txs == CascadedTransactions(database.transactions, target, bals)
        rows == {t \in database.transactions : t.id \in txs}
        remaining == {r \in database.account_balances : r.id \notin bals}
        updates == ReverseRows(RowsInOrder(rows, TransactionIdPool))
    IN  IF \E k \in 1..Len(updates) :
                updates[k].delta = <<>> /\ HasRow(remaining, updates[k].id)
        THEN database
        ELSE [database EXCEPT
                !.accounts = @ \ accs,
                !.account_balances = RunUpdates(remaining, updates),
                !.transactions = {t \in @ : t.id \notin txs}]

\* UNIQUE(account_id, category, currency) would be violated by the row
Duplicates(table, id, account, category, ticker) ==
    \E r \in table :
        /\ r.id # id
        /\ r.account_id = account /\ r.category = category /\ r.currency = ticker

\* the loop of handleSubmit over formData.currencies, from entry i on: the
\* tables it leaves, and whether it ran to its end
RECURSIVE UpdateAccountBalances(_, _, _, _, _)
UpdateAccountBalances(database, account, currencies, existingCurrencyIds, i) ==
    IF i > Len(currencies) THEN [db |-> database, ok |-> TRUE]
    ELSE IF i <= Len(existingCurrencyIds)
    THEN IF ~HasRow(database.account_balances, existingCurrencyIds[i])
         THEN UpdateAccountBalances(
                database, account, currencies, existingCurrencyIds, i + 1)
         ELSE LET row == RowOf(database.account_balances, existingCurrencyIds[i])
              IN  IF Duplicates(database.account_balances, row.id, row.account_id,
                                row.category, currencies[i])
                  THEN [db |-> database, ok |-> FALSE]
                  ELSE UpdateAccountBalances(
                        [database EXCEPT !.account_balances =
                            (@ \ {row}) \cup {[row EXCEPT !.currency = currencies[i]]}],
                        account, currencies, existingCurrencyIds, i + 1)
    ELSE IF Duplicates(database.account_balances, NullId, account, "currency",
                       currencies[i])
         THEN [db |-> database, ok |-> FALSE]
         ELSE UpdateAccountBalances(
                [database EXCEPT
                    !.account_balances = @ \cup
                        {AccountBalanceRow(BalanceIdPool[database.issued_balances + 1],
                                           account, "currency", currencies[i], 0)},
                    !.issued_balances = @ + 1],
                account, currencies, existingCurrencyIds, i + 1)

\* the balances of an account in the order the page lists them
BalancesOf(account) ==
    RowsInOrder({r \in db.account_balances : r.account_id = account}, BalanceIdPool)

\* handleEdit
HandleEdit ==
    /\ form.pc = "idle"
    /\ \E account \in db.accounts :
        LET listed == BalancesOf(account)
        IN  form' = [IdleForm EXCEPT
                !.pc = "editing",
                !.editingAccount = account,
                !.currencies = [i \in 1..Len(listed) |-> listed[i].currency],
                !.existingCurrencyIds = [i \in 1..Len(listed) |-> listed[i].id],
                !.origins = [i \in 1..Len(listed) |-> listed[i].id]]
    /\ UNCHANGED <<conv, ledger, balances, replay, ratesCache, clock, calls, chart, db>>

\* addCurrencyToForm
AddCurrencyToForm ==
    /\ form.pc = "editing"
    /\ ~form.showCurrencyRemovalWarning
    /\ Len(form.currencies) < MaxCurrencies
    /\ form' = [form EXCEPT !.currencies = Append(@, "USD"),
                            !.origins = Append(@, NullId)]
    /\ UNCHANGED <<conv, ledger, balances, replay, ratesCache, clock, calls, chart, db>>

\* countTransactionsForAccountBalance: the count, or 0 when the request failed
countTransactionsForAccountBalance(accountBalanceId, failed) ==
    IF failed THEN 0
    ELSE Cardinality({t \in db.transactions : t.account_balance_id = accountBalanceId})

\* removeCurrencyFromForm
RemoveCurrencyFromForm ==
    /\ form.pc = "editing"
    /\ ~form.showCurrencyRemovalWarning
    /\ \E index \in 1..Len(form.currencies) : \E failed \in BOOLEAN :
        LET transactionCount ==
                countTransactionsForAccountBalance(form.existingCurrencyIds[index], failed)
        IN  IF Len(form.currencies) > 1
            THEN IF index <= Len(form.existingCurrencyIds) /\ transactionCount > 0
                 THEN form' = [form EXCEPT
                        !.currencyToRemove =
                            <<[index |-> index, currency |-> form.currencies[index],
                               transactionCount |-> transactionCount]>>,
                        !.showCurrencyRemovalWarning = TRUE]
                 ELSE form' = [form EXCEPT
                        !.currencies = RemoveAt(@, index),
                        !.origins = RemoveAt(@, index)]
            ELSE form' = form
    /\ UNCHANGED <<conv, ledger, balances, replay, ratesCache, clock, calls, chart, db>>

\* confirmCurrencyRemoval
ConfirmCurrencyRemoval ==
    /\ form.showCurrencyRemovalWarning
    /\ form' = [form EXCEPT
            !.currencies = IF form.currencyToRemove # <<>>
                           THEN RemoveAt(@, form.currencyToRemove[1].index) ELSE @,
            !.origins = IF form.currencyToRemove # <<>>
                        THEN RemoveAt(@, form.currencyToRemove[1].index) ELSE @,
            !.confirmed = IF form.currencyToRemove # <<>>
                          THEN @ \cup {form.origins[form.currencyToRemove[1].index]}
                          ELSE @,
            !.showCurrencyRemovalWarning = FALSE,
            !.currencyToRemove = <<>>]
    /\ UNCHANGED <<conv, ledger, balances, replay, ratesCache, clock, calls, chart, db>>

\* cancelCurrencyRemoval
CancelCurrencyRemoval ==
    /\ form.showCurrencyRemovalWarning
    /\ form' = [form EXCEPT !.showCurrencyRemovalWarning = FALSE,
                            !.currencyToRemove = <<>>]
    /\ UNCHANGED <<conv, ledger, balances, replay, ratesCache, clock, calls, chart, db>>

\* resetForm
ResetForm ==
    /\ form.pc = "editing"
    /\ ~form.showCurrencyRemovalWarning
    /\ form' = IdleForm
    /\ UNCHANGED <<conv, ledger, balances, replay, ratesCache, clock, calls, chart, db>>

\* handleSubmit of the accounts page for an account being edited
AccountHandleSubmit ==
    /\ form.pc = "editing"
    /\ ~form.showCurrencyRemovalWarning
    /\ LET removedBalanceIds == Slice(form.existingCurrencyIds, Len(form.currencies))
           afterDelete ==
                IF Len(removedBalanceIds) > 0
                THEN DeleteNow(db, [NoTarget EXCEPT !.balances = Range(removedBalanceIds)])
                ELSE db
           saved == UpdateAccountBalances(afterDelete, form.editingAccount,
                        form.currencies, form.existingCurrencyIds, 1)
       IN  /\ db.issued_balances + Len(Slice(form.currencies, Len(form.existingCurrencyIds)))
                <= Len(BalanceIdPool)
           /\ db' = saved.db
           /\ form' = IF saved.ok
                      THEN [IdleForm EXCEPT
                                !.existingCurrencyIds = form.existingCurrencyIds]
                      ELSE form
    /\ UNCHANGED <<conv, ledger, balances, replay, ratesCache, clock, calls, chart>>


-----------------------------------------------------------------------------
(* Specifications *)

\* convertCurrency on every input of the bounded sets
InitOfConv ==
    /\ conv \in [amount : ConvAmounts, from : Tickers, to : Tickers,
                 rates : ConvTables, result : {<<>>}, back : {<<>>}]
    /\ ledger = <<>>
    /\ balances = [b \in BalanceIds |-> 0]
    /\ replay = ReplayNone
    /\ ratesCache = EmptyCache
    /\ clock = 0
    /\ calls = [c \in Callers |-> IdleCall]
    /\ chart = ChartNone
    /\ db = EmptyDb
    /\ form = IdleForm

NextConv == Convert \/ ConvertBack

SpecConv == InitOfConv /\ [][NextConv]_vars

\* the replay of every ledger of up to MaxTx rows
InitOfReplay ==
    /\ conv = IdleConv
    /\ ledger = <<>>
    /\ balances \in [BalanceIds -> {0, 7}]
    /\ replay = ReplayNone
    /\ ratesCache = EmptyCache
    /\ clock = 0
    /\ calls = [c \in Callers |-> IdleCall]
    /\ chart = ChartNone
    /\ db = EmptyDb
    /\ form = IdleForm

NextReplay == InsertTransaction \/ Replay

SpecReplay == InitOfReplay /\ [][NextReplay]_vars

\* the rate gateway, one call at a time, from the empty cache of module load
InitOfGateway ==
    /\ conv = IdleConv
    /\ ledger = <<>>
    /\ balances = [b \in BalanceIds |-> 0]
    /\ replay = ReplayNone
    /\ ratesCache = EmptyCache
    /\ clock = 0
    /\ calls = [c \in Callers |-> IdleCall]
    /\ chart = ChartNone
    /\ db = EmptyDb
    /\ form = IdleForm

NextGateway ==
    \/ GetAssetRatesStart("c1")
    \/ GetAssetRatesResponse("c1")
    \/ GetHistoricalStart("c1")
    \/ GetHistoricalResponse("c1")
    \/ Tick

SpecGateway == InitOfGateway /\ [][NextGateway]_vars

\* two getAssetRates calls at a time for the same reporting currency, the
\* first for EUR and the second for EUR and BTC, their requests answered in
\* any order, from the empty cache of module load
PairBase == "USD"

PairAssets(c) == IF c = "c1" THEN <<"EUR">> ELSE <<"EUR", "BTC">>

StartOfPair(c) ==
    /\ GetAssetRatesStart(c)
    /\ calls'[c].assets = PairAssets(c)
    /\ calls'[c].base = PairBase

InitOfGatewayPair ==
    /\ conv = IdleConv
    /\ ledger = <<>>
    /\ balances = [b \in BalanceIds |-> 0]
    /\ replay = ReplayNone
    /\ ratesCache = EmptyCache
    /\ clock = 0
    /\ calls = [c \in Callers |-> IdleCall]
    /\ chart = ChartNone
    /\ db = EmptyDb
    /\ form = IdleForm

NextGatewayPair ==
    \/ StartOfPair("c1")
    \/ GetAssetRatesResponse("c1")
    \/ StartOfPair("c2")
    \/ GetAssetRatesResponse("c2")
    \/ Tick

SpecGatewayPair == InitOfGatewayPair /\ [][NextGatewayPair]_vars

\* one chart calculation for every ledger, portfolio and local time
InitOfChart ==
    /\ conv = IdleConv
    /\ ledger \in ChartLedgers
    /\ balances = [b \in BalanceIds |-> 0]
    /\ replay = ReplayNone
    /\ ratesCache = EmptyCache
    /\ clock = ChartNow
    /\ calls = [c \in Callers |-> IdleCall]
    /\ chart \in {[ChartNone EXCEPT !.tz = tz, !.accounts = accounts] :
                    tz \in TimezoneOffsets, accounts \in ChartPortfolios}
    /\ db = EmptyDb
    /\ form = IdleForm

NextChart == CalculateHistoricalHoldingsStart \/ CalculateHistoricalHoldingsFinish

SpecChart == InitOfChart /\ [][NextChart]_vars

\* the earliest transaction lies up to MaxSpanDays days before today
MaxSpanDays == 2200

SpanLedgers ==
    {<<[type |-> "income", amount |-> 1000, account_balance_id |-> "A",
        to_account_balance_id |-> NullId, to_amount |-> <<>>,
        date |-> ChartToday - k]>> : k \in 0..MaxSpanDays}

\* calculateHistoricalHoldings up to the historical fetch, for every age of
\* the earliest transaction
InitOfFetchWindow ==
    /\ conv = IdleConv
    /\ ledger \in SpanLedgers
    /\ balances = [b \in BalanceIds |-> 0]
    /\ replay = ReplayNone
    /\ ratesCache = EmptyCache
    /\ clock = ChartNow
    /\ calls = [c \in Callers |-> IdleCall]
    /\ chart \in {[ChartNone EXCEPT !.tz = tz, !.accounts = accounts] :
                    tz \in TimezoneOffsets, accounts \in ChartPortfolios}
    /\ db = EmptyDb
    /\ form = IdleForm

NextFetchWindow == CalculateHistoricalHoldingsStart

SpecFetchWindow == InitOfFetchWindow /\ [][NextFetchWindow]_vars

\* two sessions working on the tables of one user: one account, one balance
InitOfDb ==
    /\ conv = IdleConv
    /\ ledger = <<>>
    /\ balances = [b \in BalanceIds |-> 0]
    /\ replay = ReplayNone
    /\ ratesCache = EmptyCache
    /\ clock = 0
    /\ calls = [c \in Callers |-> IdleCall]
    /\ chart = ChartNone
    /\ db = [EmptyDb EXCEPT
                !.accounts = Accounts,
                !.account_balances =
                    {AccountBalanceRow(BalanceIdPool[1], "acc1", "currency", "USD", 0)},
                !.issued_balances = 1]
    /\ form = IdleForm

NextDb ==
    \E s \in Sessions :
        \/ HandleSubmitProvision(s)
        \/ HandleSubmitWrite(s)
        \/ HandleSubmitSpend(s)
        \/ HandleDelete(s)
        \/ DeleteAccount(s)
        \/ DeleteBalances(s)
        \/ TriggerUpdate(s)
        \/ DeadlockAbort(s)
        \/ Commit(s)

SpecDb == InitOfDb /\ [][NextDb]_vars

\* one browser tab at the transactions page, every submission validated
\* against the balances as they are in the database
NextTransactionForm ==
    \/ SubmitProvision("s1")
    \/ HandleSubmitWrite("s1")
    \/ SubmitSpend("s1")
    \/ HandleDelete("s1")
    \/ TriggerUpdate("s1")
    \/ Commit("s1")

InitOfTransactionForm ==
    /\ conv = IdleConv
    /\ ledger = <<>>
    /\ balances = [b \in BalanceIds |-> 0]
    /\ replay = ReplayNone
    /\ ratesCache = EmptyCache
    /\ clock = 0
    /\ calls = [c \in Callers |-> IdleCall]
    /\ chart = ChartNone
    /\ db = [EmptyDb EXCEPT
                !.accounts = Accounts,
                !.account_balances =
                    {AccountBalanceRow(BalanceIdPool[1], "acc1", "currency", "USD", 0)},
                !.issued_balances = 1]
    /\ form = IdleForm

SpecTransactionForm == InitOfTransactionForm /\ [][NextTransactionForm]_vars

\* the transactions the account of the form specification may hold
FormTransactions ==
    {InsertedRow(TransactionIdPool[1],
        [account_id |-> "acc1", account_balance_id |-> BalanceIdPool[1],
         type |-> "income", amount |-> 100, currency |-> "USD", date |-> DbToday]),
     InsertedRow(TransactionIdPool[2],
        [account_id |-> "acc1", account_balance_id |-> BalanceIdPool[1],
         type |-> "transfer", amount |-> 100, currency |-> "USD", date |-> DbToday,
         to_account_id |-> "acc1", to_account_balance_id |-> BalanceIdPool[2],
         to_amount |-> <<90>>, to_currency |-> "EUR"]),
     InsertedRow(TransactionIdPool[3],
        [account_id |-> "acc1", account_balance_id |-> BalanceIdPool[3],
         type |-> "expense", amount |-> 30, currency |-> "BTC", date |-> DbToday])}

\* one account with three balances, any of the transactions above stored and
\* applied by the trigger, and the accounts page open on it
InitOfAccountForm ==
    /\ conv = IdleConv
    /\ ledger = <<>>
    /\ balances = [b \in BalanceIds |-> 0]
    /\ replay = ReplayNone
    /\ ratesCache = EmptyCache
    /\ clock = 0
    /\ calls = [c \in Callers |-> IdleCall]
    /\ chart = ChartNone
    /\ \E stored \in SUBSET FormTransactions :
        db = [EmptyDb EXCEPT
                !.accounts = {"acc1"},
                !.account_balances =
                    RunUpdates(
                        {AccountBalanceRow(BalanceIdPool[1], "acc1", "currency", "USD", 0),
                         AccountBalanceRow(BalanceIdPool[2], "acc1", "currency", "EUR", 0),
                         AccountBalanceRow(BalanceIdPool[3], "acc1", "crypto", "BTC", 0)},
                        ReverseRows(RowsInOrder(stored, TransactionIdPool))),
                !.transactions = stored,
                !.issued_balances = 3,
                !.issued_transactions = 3]
    /\ form = IdleForm

NextAccountForm ==
    \/ HandleEdit
    \/ AddCurrencyToForm
    \/ RemoveCurrencyFromForm
    \/ ConfirmCurrencyRemoval
    \/ CancelCurrencyRemoval
    \/ ResetForm
    \/ AccountHandleSubmit

SpecAccountForm == InitOfAccountForm /\ [][NextAccountForm]_vars

-----------------------------------------------------------------------------
(* Properties of convertCurrency, under SpecConv *)

\* the tickers whose rate in the table is exactly 1
RateOneTickers(rates) == {a \in Tickers : HasKey(rates, a) /\ Get(rates, a) = Num(1)}

\* the table holds a rate for the ticker and it is not zero
NonZeroRate(rates, a) == HasKey(rates, a) /\ Get(rates, a) # Num(0)

\* C3: convertCurrency agrees with the reference: x when from = to, for any
\* table; otherwise, b being the one ticker of the table whose rate is 1 and
\* the rates needed being present and non-zero, x*R[to] when from = b,
\* x*R[from] when to = b, and (x*R[from])/R[to] when neither is b.
C3_ConvertAgreesWithReference ==
    conv.result # <<>> =>
        LET x == conv.amount
            f == conv.from
            t == conv.to
            R == conv.rates
        IN  /\ f = t => conv.result[1] = x
            /\ (f # t /\ Cardinality(RateOneTickers(R)) = 1) =>
                LET b == CHOOSE a \in RateOneTickers(R) : TRUE
                IN  /\ (f = b /\ NonZeroRate(R, t)) =>
                        conv.result[1] = RMul(x, Get(R, t))
                    /\ (t = b /\ NonZeroRate(R, f)) =>
                        conv.result[1] = RMul(x, Get(R, f))
                    /\ (f # b /\ t # b /\ NonZeroRate(R, f) /\ NonZeroRate(R, t)) =>
                        conv.result[1] = RDiv(RMul(x, Get(R, f)), Get(R, t))

\* a cross conversion of 90 EUR into BTC through the base USD has been made
C3_Witness ==
    /\ conv.result = <<Rat(81, 2)>>
    /\ conv.amount = Num(90) /\ conv.from = "EUR" /\ conv.to = "BTC"
    /\ conv.rates = <<[asset |-> "USD", rate |-> Num(1)],
                      [asset |-> "EUR", rate |-> Rat(9, 10)],
                      [asset |-> "BTC", rate |-> Num(2)]>>

UsdEurTable ==
    <<[asset |-> "USD", rate |-> Num(1)], [asset |-> "EUR", rate |-> Rat(9, 10)]>>

\* C4: with the table {USD: 1, EUR: 0.9}, convert(100, USD, EUR) = 90 and
\* convert(90, EUR, USD) = 100; an amount converted from the base USD to EUR
\* and back to USD is the original amount.
C4_BaseRoundTrip ==
    conv.rates = UsdEurTable =>
        /\ (conv.result # <<>> /\ conv.amount = Num(100)
                /\ conv.from = "USD" /\ conv.to = "EUR") => conv.result[1] = Num(90)
        /\ (conv.result # <<>> /\ conv.amount = Num(90)
                /\ conv.from = "EUR" /\ conv.to = "USD") => conv.result[1] = Num(100)
        /\ (conv.back # <<>> /\ conv.from = "USD" /\ conv.to = "EUR") =>
                conv.back[1] = conv.amount

\* the half of C4 the code does satisfy: convert(100, USD, EUR) = 90
C4_BaseToOther ==
    (conv.rates = UsdEurTable /\ conv.result # <<>> /\ conv.amount = Num(100)
        /\ conv.from = "USD" /\ conv.to = "EUR") => conv.result[1] = Num(90)

\* the ticker counts as the base of the table: its rate is exactly 1, or no
\* rate of the table is 1 and it is the literal "USD"
IsBaseOf(rates, a) ==
    \/ a \in RateOneTickers(rates)
    \/ RateOneTickers(rates) = {} /\ a = "USD"

\* a rate the conversion needs is absent from the table
NeededRateAbsent(rates, f, t) ==
    \/ IsBaseOf(rates, f) /\ ~HasKey(rates, t)
    \/ IsBaseOf(rates, t) /\ ~HasKey(rates, f)
    \/ ~IsBaseOf(rates, f) /\ ~IsBaseOf(rates, t)
        /\ (~HasKey(rates, f) \/ ~HasKey(rates, t))

\* C5: for distinct tickers, when a rate the conversion needs is absent from
\* the table, convertCurrency returns the amount unchanged (and returns: the
\* computation has no failing outcome).
C5_MissingRateIsParity ==
    (conv.result # <<>> /\ conv.from # conv.to
        /\ NeededRateAbsent(conv.rates, conv.from, conv.to)) =>
            conv.result[1] = conv.amount

\* 100 EUR converted to BTC with a table that has no rate for EUR
C5_Witness ==
    /\ conv.result = <<Num(100)>>
    /\ conv.amount = Num(100) /\ conv.from = "EUR" /\ conv.to = "BTC"
    /\ conv.rates = <<[asset |-> "USD", rate |-> Num(1)],
                      [asset |-> "BTC", rate |-> Num(2)]>>

-----------------------------------------------------------------------------
(* Properties of the replay, under SpecReplay *)

\* to_amount, 0 when null
ToAmount(t) == IF t.to_amount = <<>> THEN 0 ELSE t.to_amount[1]

\* the signed delta of a transaction on a balance: each role the balance
\* has in a transfer counts
SignedDelta(t, b) ==
    CASE t.type = "income" -> t.amount
      [] t.type \in {"expense", "taxation"} -> 0 - t.amount
      [] t.type = "transfer" ->
            (IF t.to_account_balance_id = b THEN ToAmount(t) ELSE 0)
            - (IF t.account_balance_id = b THEN t.amount ELSE 0)

RECURSIVE SumOfDeltas(_, _, _)
SumOfDeltas(T, I, b) ==
    IF I = {} THEN 0
    ELSE LET i == CHOOSE j \in I : TRUE
         IN  SignedDelta(T[i], b) + SumOfDeltas(T, I \ {i}, b)

\* the transactions of T dated on or before the instant
DatedUpTo(T, instant) == {i \in 1..Len(T) : ParseDate(T[i].date) <= instant}

\* the replay of balance b equals the sum of the signed deltas up to each date
ReplayIsSumOfDeltas(b) ==
    LET T == TransactionsOf(ledger, b)
    IN  /\ \A d \in Days :
            replay.balanceAtDate[b][d] = SumOfDeltas(T, DatedUpTo(T, ParseDate(d)), b)
        /\ \A t \in Instants :
            replay.assetBalance[b][t] = SumOfDeltas(T, DatedUpTo(T, t), b)

Income100Day1 ==
    [type |-> "income", amount |-> 100, account_balance_id |-> "A",
     to_account_balance_id |-> NullId, to_amount |-> <<>>, date |-> 1]

Expense30Day5 ==
    [type |-> "expense", amount |-> 30, account_balance_id |-> "A",
     to_account_balance_id |-> NullId, to_amount |-> <<>>, date |-> 5]

\* income 100 on day 1 and expense 30 on day 5 give 0, 100, 100, 70 at days
\* 0, 1, 4, 5
ReplayExample ==
    (replay.done /\ ledger = <<Income100Day1, Expense30Day5>>) =>
        /\ replay.balanceAtDate["A"][0] = 0
        /\ replay.balanceAtDate["A"][1] = 100
        /\ replay.balanceAtDate["A"][4] = 100
        /\ replay.balanceAtDate["A"][5] = 70

\* C1: whatever the current_balance, the replayed balance at a date (by
\* calculateBalanceAtDate, and before conversion in calculateAssetValueAtDate)
\* is the sum of the signed deltas of the transactions dated on or before it,
\* a transaction dated that very day included.
C1_ReplayIsSumOfSignedDeltas ==
    replay.done => (ReplayExample /\ \A b \in BalanceIds : ReplayIsSumOfDeltas(b))

\* a transfer whose source and destination are the same balance
SelfTransfer(t) ==
    t.type = "transfer" /\ t.account_balance_id = t.to_account_balance_id

\* what the replay does satisfy: the sum of C1 on every ledger without a
\* transfer from a balance to itself
C1_HoldsWithoutSelfTransfer ==
    (replay.done /\ \A i \in 1..Len(ledger) : ~SelfTransfer(ledger[i])) =>
        (ReplayExample /\ \A b \in BalanceIds : ReplayIsSumOfDeltas(b))

\* the ledger without its i-th row
WithoutRow(T, i) == SubSeq(T, 1, i - 1) \o SubSeq(T, i + 1, Len(T))

\* C2: a transfer of amount a from balance A to another balance B with
\* to_amount b makes, at every date on or after its own, the replay of A
\* exactly a lower and the replay of B exactly b higher than the replay of
\* the ledger without it.
C2_TransferLegsAreIndependent ==
    replay.done =>
        \A i \in 1..Len(ledger) :
            LET x    == ledger[i]
                A    == x.account_balance_id
                B    == x.to_account_balance_id
                rest == WithoutRow(ledger, i)
            IN  (x.type = "transfer" /\ A # B) =>
                    /\ \A d \in {e \in Days : e >= x.date} :
                        /\ replay.balanceAtDate[A][d] =
                            calculateBalanceAtDate(BalanceRow(A), TransactionsOf(rest, A),
                                                   ParseDate(d)) - x.amount
                        /\ replay.balanceAtDate[B][d] =
                            calculateBalanceAtDate(BalanceRow(B), TransactionsOf(rest, B),
                                                   ParseDate(d)) + ToAmount(x)
                    /\ \A t \in {u \in Instants : u >= ParseDate(x.date)} :
                        /\ replay.assetBalance[A][t] =
                            AssetBalanceAtDate(BalanceRow(A), TransactionsOf(rest, A), t)
                            - x.amount
                        /\ replay.assetBalance[B][t] =
                            AssetBalanceAtDate(BalanceRow(B), TransactionsOf(rest, B), t)
                            + ToAmount(x)

\* a ledger holding a transfer of 100 out of A (USD) for 90 into B (EUR) next
\* to another transaction has been replayed
C2_Witness ==
    /\ replay.done
    /\ Len(ledger) = 2
    /\ ledger[1] = Income100Day1
    /\ ledger[2] = [type |-> "transfer", amount |-> 100, account_balance_id |-> "A",
                    to_account_balance_id |-> "B", to_amount |-> <<90>>, date |-> 1]
    /\ replay.balanceAtDate["A"][1] = 0
    /\ replay.balanceAtDate["B"][1] = 90

-----------------------------------------------------------------------------
(* Properties of the rate gateway, under SpecGateway *)

Returned(c, fn) == calls[c].fn = fn /\ calls[c].pc = "done"

\* the request threw or came back with a non-2xx status
RequestFailed(outcome) == outcome.kind \in {"networkError", "httpError"}

\* the call made at least one upstream request and every one of them failed
AllRequestsFailed(call) ==
    /\ call.outcomes # <<>>
    /\ \A i \in 1..Len(call.outcomes) : RequestFailed(call.outcomes[i])

\* the elements of an answered array that were read before a malformed one
ReadEntries(data) == {j \in 1..Len(data) : \A m \in 1..j : ~data[m].bad}

\* C6: every getAssetRates call that has returned, whatever the upstream
\* answered and whatever the cache held, returned a table in which the
\* requested reporting currency has rate exactly 1.  (No step of a call
\* raises: each outcome of a request leads to the next fetch or the return.)
C6_ReturnsTableWithBaseOne ==
    \A c \in Callers :
        Returned(c, "getAssetRates") =>
            /\ calls[c].path \in {"empty", "cached", "fetched"}
            /\ HasKey(calls[c].result, calls[c].base)
            /\ Get(calls[c].result, calls[c].base) = Num(1)

\* a call has returned after an answer that priced the reporting currency
\* itself at 3
C6_Witness ==
    /\ Returned("c1", "getAssetRates")
    /\ calls["c1"].path = "fetched"
    /\ \E i \in 1..Len(calls["c1"].outcomes) :
        LET o == calls["c1"].outcomes[i]
        IN  \E j \in ReadEntries(o.data) :
                /\ DecodeTicker(o.category, o.data[j].ticker) = calls["c1"].base
                /\ o.data[j].price = Num(3)

\* the cache held a table for this reporting currency, with at least one
\* price in it, when the call started
HadCachedTable(call) ==
    /\ call.cacheBefore.data # <<>>
    /\ call.cacheBefore.baseCurrency = call.base

\* C7: when every upstream request of a call fails and the cache holds a
\* table an earlier successful call stored for the same reporting currency,
\* the call returns that table, whatever its age and ticker list.
C7_AllFailedReturnsCachedTable ==
    \A c \in Callers :
        (Returned(c, "getAssetRates") /\ AllRequestsFailed(calls[c])
            /\ HadCachedTable(calls[c]) /\ Len(calls[c].cacheBefore.data[1]) > 1) =>
                calls[c].result = calls[c].cacheBefore.data[1]

\* C8: when every upstream request of a call fails and no cached table
\* exists for the reporting currency, the call returns a table with rate 1
\* for the reporting currency and rate 1 for every requested ticker.
C8_AllFailedWithoutCacheReturnsParity ==
    \A c \in Callers :
        (Returned(c, "getAssetRates") /\ AllRequestsFailed(calls[c])
            /\ ~HadCachedTable(calls[c])) =>
                /\ Get(calls[c].result, calls[c].base) = Num(1)
                /\ \A i \in 1..Len(calls[c].assets) :
                    Get(calls[c].result, calls[c].assets[i]) = Num(1)

\* the two lists hold the same tickers the same number of times
Occurrences(list, a) == Cardinality({i \in 1..Len(list) : list[i] = a})

SameUpToOrder(l1, l2) ==
    Len(l1) = Len(l2) /\ \A a \in Tickers : Occurrences(l1, a) = Occurrences(l2, a)

\* C9: a getAssetRates call for a non-empty list is served from the cache
\* (returns the stored table, asks nothing upstream and leaves the slot as
\* it was) exactly when the slot holds a table, for the same reporting
\* currency, stored less than 24 hours before, for the same list up to
\* order; every other call rewrites the slot with its own table.
C9_ServedFromCacheIffValid ==
    \A c \in Callers :
        (Returned(c, "getAssetRates") /\ calls[c].assets # <<>>) =>
            LET call   == calls[c]
                before == call.cacheBefore
                valid  == /\ before.data # <<>>
                          /\ before.baseCurrency = call.base
                          /\ call.now - before.timestamp < 24
                          /\ SameUpToOrder(call.assets, before.requestedAssets)
            IN  /\ (call.path = "cached") <=> valid
                /\ call.path = "cached" =>
                    /\ call.result = before.data[1]
                    /\ call.outcomes = <<>>
                    /\ ratesCache = before
                /\ call.path # "cached" =>
                    /\ ratesCache.data = <<call.result>>
                    /\ ratesCache.timestamp = call.now
                    /\ ratesCache.baseCurrency = call.base
                    /\ ratesCache.requestedAssets = call.assets

\* a call found a table for its currency and its list, stored exactly 24
\* hours before, and was not served from the cache
C9_Witness ==
    /\ Returned("c1", "getAssetRates")
    /\ calls["c1"].path = "fetched"
    /\ calls["c1"].assets = <<"BTC", "EUR">>
    /\ calls["c1"].cacheBefore.data # <<>>
    /\ calls["c1"].cacheBefore.baseCurrency = calls["c1"].base
    /\ calls["c1"].cacheBefore.requestedAssets = <<"EUR", "BTC">>
    /\ calls["c1"].now - calls["c1"].cacheBefore.timestamp = 24

\* a call served from the cache with its list in another order
C9_HitWitness ==
    /\ Returned("c1", "getAssetRates")
    /\ calls["c1"].path = "cached"
    /\ calls["c1"].assets = <<"BTC", "EUR">>
    /\ calls["c1"].cacheBefore.requestedAssets = <<"EUR", "BTC">>
    /\ calls["c1"].now - calls["c1"].cacheBefore.timestamp = 12

\* the categories that hold a requested asset other than the base, in the
\* order of the loop
CategoriesToRequest(assets, base) ==
    SelectSeq(Categories,
              LAMBDA cat : \E i \in 1..Len(assets) :
                             assets[i] # base /\ findAssetCategory(assets[i]) = cat)

\* C10: within one getAssetRates or getHistoricalAssetRates call a failed
\* request does not stop the others: every category that holds a requested
\* asset is requested, and whatever a successful request returned is in the
\* result (a price under its asset; a historical sample as it came), so
\* that an asset is left without a price only by its own category's answer.
C10_FailedCategoryDoesNotStopOthers ==
    \A c \in Callers :
        (calls[c].pc = "done" /\ calls[c].path = "fetched") =>
            LET call == calls[c]
            IN  /\ [i \in 1..Len(call.outcomes) |-> call.outcomes[i].category]
                        = CategoriesToRequest(call.assets, call.base)
                /\ \A i \in 1..Len(call.outcomes) :
                    LET o == call.outcomes[i]
                    IN  o.kind = "array" =>
                            IF call.fn = "getAssetRates"
                            THEN \A j \in ReadEntries(o.data) :
                                    LET a == DecodeTicker(o.category, o.data[j].ticker)
                                    IN  a \notin {"", call.base} =>
                                            Get(call.result, a) = o.data[j].price
                            ELSE \A j \in 1..Len(o.data) :
                                    \E m \in 1..Len(call.result) :
                                        call.result[m] = o.data[j]

\* the currency request of a call failed and its crypto request succeeded:
\* BTC is priced, EUR is not
C10_Witness ==
    /\ Returned("c1", "getAssetRates")
    /\ calls["c1"].assets = <<"EUR", "BTC">>
    /\ Len(calls["c1"].outcomes) = 2
    /\ RequestFailed(calls["c1"].outcomes[1])
    /\ calls["c1"].outcomes[2].kind = "array"
    /\ HasKey(calls["c1"].result, "BTC")
    /\ ~HasKey(calls["c1"].result, "EUR")

\* the same for getHistoricalAssetRates: the BTC sample is returned
C10_HistoricalWitness ==
    /\ Returned("c1", "getHistoricalAssetRates")
    /\ calls["c1"].assets = <<"EUR", "BTC">>
    /\ Len(calls["c1"].outcomes) = 2
    /\ RequestFailed(calls["c1"].outcomes[1])
    /\ calls["c1"].outcomes[2].kind = "array"
    /\ Len(calls["c1"].result) = 1
    /\ calls["c1"].result[1].ticker = "BTC-USD"

-----------------------------------------------------------------------------
(* Properties of the chart, under SpecChart *)

\* the series createSimpleHistoricalChart gives for the inputs of the
\* calculation: every day valued with the current-rates table
SimpleChart ==
    createSimpleHistoricalChart(chart.accounts, ledger, chart.mainCurrency,
                                chart.period, chart.currentRates, chart.now, chart.tz)

\* every sample carries a date that parses
EverySampleIsDated ==
    \A i \in 1..Len(chart.historicalRates) :
        /\ DateString(chart.historicalRates[i]) # <<>>
        /\ IsValidDate(DateString(chart.historicalRates[i]))

\* C11: whenever the historical fetch returned no point, one point, or
\* samples of fewer than 3 distinct timestamps, calculateHistoricalHoldings
\* takes the simple path and returns the series valued with the current
\* rates only.
C11_SparseHistoryTakesSimplePath ==
    (chart.pc = "done" /\ Cardinality(Timestamps(chart.historicalRates)) < 3) =>
        (chart.path = "simple" /\ chart.result = SimpleChart)

\* what does hold: the same when every returned sample carries a date that
\* parses
C11_HoldsForDatedSamples ==
    (/\ chart.pc = "done"
     /\ EverySampleIsDated
     /\ Cardinality(Timestamps(chart.historicalRates)) < 3) =>
        (chart.path = "simple" /\ chart.result = SimpleChart)

\* three samples of two timestamps took the simple path
C11_DatedWitness ==
    /\ chart.pc = "done"
    /\ Len(chart.historicalRates) = 3
    /\ EverySampleIsDated
    /\ Cardinality(Timestamps(chart.historicalRates)) = 2
    /\ chart.path = "simple"

\* the day of the earliest transaction of the ledger
EarliestTransactionDay == Min({ledger[i].date : i \in 1..Len(ledger)})

C12_SimpleWitness ==
    /\ chart.pc = "done"
    /\ chart.path = "simple"
    /\ chart.period = "30d"
    /\ chart.tz = -5
    /\ EarliestTransactionDay = ChartToday - 3
    /\ ToISODate(SimpleStartDate(chart.period,
                                 FirstTransactionDate(ledger, chart.now, chart.tz),
                                 chart.now, chart.tz)) = EarliestTransactionDay - 1
    /\ chart.result # <<>>
    /\ chart.result[1].date = EarliestTransactionDay

\* the ledger of the example: one income of 1000 USD dated 2024-01-01
OneIncomeOf1000 ==
    <<[type |-> "income", amount |-> 1000, account_balance_id |-> "A",
       to_account_balance_id |-> NullId, to_amount |-> <<>>,
       date |-> DaysFromCivil(2024, 1, 1)]>>

\* one account holding one USD balance
OneUsdBalance == Len(chart.accounts) = 1 /\ Len(chart.accounts[1].balances) = 1

\* C13: one USD balance, one income of 1000 USD on 2024-01-01, reporting
\* currency USD, chart drawn on 2024-01-10 for a period that covers the ten
\* days: the series has one point per day from 2024-01-01 to 2024-01-10,
\* in order, each with totalValue 1000.
C13_IncomeExampleSeries ==
    (chart.pc = "done" /\ ledger = OneIncomeOf1000 /\ OneUsdBalance) =>
        /\ Len(chart.result) = 10
        /\ \A i \in 1..Len(chart.result) :
            /\ chart.result[i].date = DaysFromCivil(2024, 1, 1) + i - 1
            /\ chart.result[i].totalValue = Num(1000)

\* what does hold: the example where local time is UTC or behind it
C13_HoldsWestOfUtc ==
    (chart.pc = "done" /\ ledger = OneIncomeOf1000 /\ OneUsdBalance /\ chart.tz <= 0) =>
        /\ Len(chart.result) = 10
        /\ \A i \in 1..Len(chart.result) :
            /\ chart.result[i].date = DaysFromCivil(2024, 1, 1) + i - 1
            /\ chart.result[i].totalValue = Num(1000)

\* where local time is ahead of UTC the series stops the day before today
C13_EastOfUtc ==
    (chart.pc = "done" /\ ledger = OneIncomeOf1000 /\ OneUsdBalance /\ chart.tz > 0) =>
        /\ Len(chart.result) = 9
        /\ chart.result[1].date = DaysFromCivil(2024, 1, 1)
        /\ chart.result[9].date = DaysFromCivil(2024, 1, 9)

BoundedPeriods == {"30d", "180d", "ytd", "1y", "5y"}

\* the local calendar day on which the requested period starts
PeriodStartDay == LocalDay(PeriodStartDate(chart.period, chart.now, chart.tz), chart.tz)

\* C19: for a bounded period and on either path, when the period would
\* start before the earliest transaction date the series starts at that
\* date, and otherwise no point is dated before the period start.
C19_WindowStartsAtFirstTransaction ==
    (chart.pc = "done" /\ chart.period \in BoundedPeriods /\ chart.result # <<>>) =>
        IF PeriodStartDay < EarliestTransactionDay
        THEN chart.result[1].date = EarliestTransactionDay
        ELSE \A i \in 1..Len(chart.result) : chart.result[i].date >= PeriodStartDay

\* the value of the portfolio on the day of its earliest transaction, at
\* the current rates
ValueOnFirstDay ==
    SumBalances(AllBalances(chart.accounts), ledger, chart.currentRates,
                chart.mainCurrency, EarliestTransactionDay)

\* what does hold: the same at UTC and west of it, when the portfolio is
\* worth something on the day of its earliest transaction
C19_HoldsWestOfUtc ==
    (/\ chart.pc = "done" /\ chart.period \in BoundedPeriods /\ chart.result # <<>>
     /\ chart.tz <= 0 /\ ValueOnFirstDay # Num(0)) =>
        IF PeriodStartDay < EarliestTransactionDay
        THEN chart.result[1].date = EarliestTransactionDay
        ELSE \A i \in 1..Len(chart.result) : chart.result[i].date >= PeriodStartDay

\* a series that starts the day before the period does
C19_StartsBeforePeriod ==
    /\ chart.pc = "done"
    /\ chart.period = "30d"
    /\ chart.tz = 2
    /\ EarliestTransactionDay = ChartToday - 40
    /\ chart.result # <<>>
    /\ chart.result[1].date = PeriodStartDay - 1

\* a series that starts the day after the earliest transaction
C19_StartsAfterFirstTransaction ==
    /\ chart.pc = "done"
    /\ chart.period = "30d"
    /\ chart.tz = 0
    /\ EarliestTransactionDay = ChartToday - 3
    /\ chart.result # <<>>
    /\ chart.result[1].date = EarliestTransactionDay + 1

-----------------------------------------------------------------------------
(* Properties of the period to fetch, under SpecFetchWindow *)

\* the span from the earliest transaction (the local midnight the series
\* starts at) to now, in days, rounded up
SpanDays ==
    (chart.now - SetHoursZero(ParseDate(EarliestTransactionDay), chart.tz)
        + HoursPerDay - 1) \div HoursPerDay

\* the days an upstream period reaches back
DaysOfPeriod(period) == IF period = "1y" THEN 365 ELSE 365 * 5

Covers(period) == SpanDays <= DaysOfPeriod(period)

\* the period is the smallest of 1y, 5y that covers the span
SmallestCovering(period) ==
    /\ period \in {"1y", "5y"}
    /\ Covers(period)
    /\ \A p \in {"1y", "5y"} : Covers(p) => DaysOfPeriod(period) <= DaysOfPeriod(p)

RequestedAll == chart.pc = "awaitingHistorical" /\ chart.period = "all"

\* C20, as stated: for the period "all" the period requested upstream is
\* the smallest of 1y, 5y that covers the span from the earliest
\* transaction to today, for every earliest transaction date.
C20_FetchedPeriodCoversSpan ==
    RequestedAll => SmallestCovering(chart.periodToFetch)

\* C20, amended: that holds for an earliest transaction up to 5 * 365 days
\* back; for an earlier one 5y is requested, which does not cover the span.
C20_FetchedPeriodCoversSpanUpToFiveYears ==
    RequestedAll =>
        IF SpanDays <= 365 * 5
        THEN SmallestCovering(chart.periodToFetch)
        ELSE chart.periodToFetch = "5y" /\ ~Covers("5y")

\* "all" was requested with an earliest transaction 2000 days back
C20_Witness ==
    /\ RequestedAll
    /\ EarliestTransactionDay = ChartToday - 2000
    /\ chart.periodToFetch = "5y"

\* "all" with an earliest transaction 365 days back, in reach of 1y
C20_OneYearWitness ==
    /\ RequestedAll
    /\ SpanDays = 365
    /\ chart.periodToFetch = "1y"

-----------------------------------------------------------------------------
(* Properties of the database, under SpecDb *)

\* the open transaction of s commits in this step
Commits(s) ==
    /\ db.sessions[s].pc = "trigger"
    /\ db.sessions[s].updates = <<>>
    /\ db'.sessions[s].pc = "idle"

\* what a list of the trigger's UPDATE statements adds to the row id
RECURSIVE NetDelta(_, _)
NetDelta(updates, id) ==
    IF updates = <<>> THEN 0
    ELSE (IF Head(updates).id = id /\ Head(updates).delta # <<>>
          THEN Head(updates).delta[1] ELSE 0)
            + NetDelta(Tail(updates), id)

\* C14: whatever inserts, updates and deletes run concurrently on the same
\* balance row, no delta is lost: each operation that commits moves the
\* committed current_balance of every row by exactly the sum of the deltas its
\* trigger had to apply to that row, so the final balance is the balance before
\* plus the deltas of every committed operation.
C14_NoCommittedDeltaIsLost ==
    [][\A s \in Sessions :
        Commits(s) =>
            \A r \in db'.account_balances :
                r.current_balance =
                    RowOf(db.account_balances, r.id).current_balance
                        + NetDelta(db.sessions[s].fired, r.id)]_vars

\* two operations are open on the same balance row: one has written it and not
\* committed, the other waits for the row lock
C14_Witness ==
    \E s \in Sessions : \E o \in Sessions \ {s} :
        /\ Waiting(o)
        /\ Head(db.sessions[o].updates).id \in db.sessions[s].locked
        /\ db.sessions[s].statement = "UPDATE"
        /\ db.sessions[o].statement = "DELETE"

\* what inserting the row adds to current_balance of the row id
Applied(row, id) == NetDelta(update_account_balance("INSERT", <<>>, row), id)

\* C15: a committed update of a transaction moves every balance as deleting
\* the old row and inserting the new one would (minus what the old row had
\* added, plus what the new row adds), whatever of type, amount, source and
\* destination the update changes; a committed delete of a transaction moves
\* every balance back by what the insertion of the row had added.
C15_UpdateIsDeleteThenInsert ==
    [][\A s \in Sessions :
        Commits(s) =>
            LET ses == db.sessions[s]
                stored == RowOf(db.transactions, ses.editing)
                result == RowOf(db'.transactions, ses.editing)
            IN  /\ ses.statement = "UPDATE" =>
                    \A r \in db'.account_balances :
                        r.current_balance =
                            RowOf(db.account_balances, r.id).current_balance
                                - Applied(stored, r.id) + Applied(result, r.id)
                /\ (ses.statement = "DELETE" /\ ses.target.transactions # {}) =>
                    \A r \in db'.account_balances : \A t \in db.transactions :
                        t.id \in ses.target.transactions =>
                            /\ ~HasRow(db'.transactions, t.id)
                            /\ r.current_balance =
                                RowOf(db.account_balances, r.id).current_balance
                                    - Applied(t, r.id)]_vars

\* an update that turns a transfer into an income of another balance is ready
\* to commit: type, source and destination all change
C15_Witness ==
    \E s \in Sessions :
        /\ db.sessions[s].pc = "trigger"
        /\ db.sessions[s].updates = <<>>
        /\ db.sessions[s].statement = "UPDATE"
        /\ db.sessions[s].old[1].type = "transfer"
        /\ db.sessions[s].new[1].type = "income"
        /\ db.sessions[s].old[1].account_balance_id
                # db.sessions[s].new[1].account_balance_id
        /\ db.sessions[s].locked # {}

\* the delete of a transfer is ready to commit, both balances written
C15_DeleteWitness ==
    \E s \in Sessions :
        /\ db.sessions[s].pc = "trigger"
        /\ db.sessions[s].updates = <<>>
        /\ db.sessions[s].statement = "DELETE"
        /\ db.sessions[s].target.transactions # {}
        /\ \E t \in db.transactions :
            /\ t.id \in db.sessions[s].txdeleting
            /\ t.type = "transfer"
            /\ {t.account_balance_id, t.to_account_balance_id}
                    \subseteq db.sessions[s].locked
            /\ t.account_balance_id # t.to_account_balance_id

\* the row of account_balances for (account, findAssetCategory(ticker), ticker)
ProvisionedRows(table, account, ticker) ==
    {r \in table : /\ r.account_id = account
                   /\ r.category = findAssetCategory(ticker)
                   /\ r.currency = ticker}

\* C16: however the submissions that provision a balance interleave, there is
\* at most one account_balances row for a triple (account, category, ticker),
\* and every stored income (transfer) references as its source (destination)
\* the one row of its account and ticker.
C16_OneRowPerTriple ==
    /\ \A r1 \in db.account_balances : \A r2 \in db.account_balances :
        (r1.account_id = r2.account_id /\ r1.category = r2.category
            /\ r1.currency = r2.currency) => r1.id = r2.id
    /\ \A t \in db.transactions :
        /\ t.type = "income" =>
            ProvisionedRows(db.account_balances, t.account_id, t.currency)
                = {RowOf(db.account_balances, t.account_balance_id)}
        /\ t.type = "transfer" =>
            ProvisionedRows(db.account_balances, t.to_account_id, t.to_currency)
                = {RowOf(db.account_balances, t.to_account_balance_id)}

\* two submissions were open together for a balance that did not exist; both
\* have the answer of their upsert, and it is the same new row
C16_Witness ==
    /\ \A s \in Sessions :
        /\ db.sessions[s].pc = "write"
        /\ db.sessions[s].formData.type = "income"
        /\ db.sessions[s].formData.currency = "EUR"
        /\ db.sessions[s].formData.account_balance_id = BalanceIdPool[2]
        /\ db.sessions[s].editing = NullId
    /\ db.transactions = {}

\* and both incomes are stored on that row
C16_StoredWitness ==
    /\ Cardinality(db.transactions) = 2
    /\ \A t \in db.transactions :
        t.type = "income" /\ t.currency = "EUR" /\ t.account_balance_id = BalanceIdPool[2]
    /\ RowOf(db.account_balances, BalanceIdPool[2]).current_balance = 200

\* the ids of the rows of a table
Ids(table) == {r.id : r \in table}

\* C17: no stored transaction references, as its source or as its
\* destination, a balance row that is not there: once a balance row is
\* deleted, by itself or with its account, the transactions that referenced
\* it are gone with it.
C17_NoReferenceToDeletedBalance ==
    \A t \in db.transactions :
        /\ t.account_balance_id \in Ids(db.account_balances)
        /\ t.to_account_balance_id # NullId =>
                t.to_account_balance_id \in Ids(db.account_balances)

\* the second balance row has been deleted by itself (its account is still
\* there) while a transaction of the first one is stored
C17_Witness ==
    /\ db.issued_balances = 2
    /\ ~HasRow(db.account_balances, BalanceIdPool[2])
    /\ db.accounts # {}
    /\ db.transactions # {}
    /\ \A s \in Sessions : db.sessions[s].pc = "idle"

\* the delete of a balance row takes with it a transfer that references the
\* row as its destination only
C17_DestinationWitness ==
    \E s \in Sessions : \E t \in db.transactions :
        /\ db.sessions[s].statement = "DELETE"
        /\ db.sessions[s].target.balances = {BalanceIdPool[2]}
        /\ t.id \in db.sessions[s].txdeleting
        /\ t.type = "transfer"
        /\ t.to_account_balance_id = BalanceIdPool[2]
        /\ t.account_balance_id = BalanceIdPool[1]

\* the account has been deleted, its balances and transactions with it
C17_AccountWitness ==
    /\ db.accounts = {}
    /\ db.account_balances = {}
    /\ db.transactions = {}
    /\ db.issued_transactions = 2
    /\ \A s \in Sessions : db.sessions[s].pc = "idle"

-----------------------------------------------------------------------------
(* Properties of the accounts page, under SpecAccountForm *)

\* some stored transaction references the balance row as source or destination
Referenced(id) ==
    \E t \in db.transactions : t.account_balance_id = id \/ t.to_account_balance_id = id

ReferencedAsSource(id) == \E t \in db.transactions : t.account_balance_id = id

\* this step takes entry i out of the form that is being edited
FormRemoves(i) ==
    /\ form.pc = "editing"
    /\ form'.pc = "editing"
    /\ i \in 1..Len(form.origins)
    /\ form'.origins = RemoveAt(form.origins, i)

\* this step deletes the balance row id
DeletesBalance(id) ==
    HasRow(db.account_balances, id) /\ ~HasRow(db'.account_balances, id)

\* C18: while an account is edited, the entry of a balance that a transaction
\* references, as source or as destination, leaves the form only by the
\* confirmation of the warning for that entry, and the row of such a balance is
\* deleted only after that confirmation.
C18_ConfirmationPrecedesRemoval ==
    [][/\ \A i \in 1..Len(form.origins) :
            (FormRemoves(i) /\ Referenced(form.origins[i]))
                => form.origins[i] \in form'.confirmed
       /\ \A id \in Ids(db.account_balances) :
            (DeletesBalance(id) /\ Referenced(id)) => id \in form.confirmed]_vars

\* the warning is shown for the entry of a balance that is the source of a
\* transaction
C18_WarningWitness ==
    /\ form.showCurrencyRemovalWarning
    /\ form.currencyToRemove # <<>>
    /\ ReferencedAsSource(form.origins[form.currencyToRemove[1].index])
    /\ form.origins = form.existingCurrencyIds

\* the entry of a balance that a transfer references as its destination has left
\* the form, and no warning was confirmed
C18_DestinationRemovedUnwarned ==
    /\ form.pc = "editing"
    /\ form.confirmed = {}
    /\ form.existingCurrencyIds = <<BalanceIdPool[1], BalanceIdPool[2], BalanceIdPool[3]>>
    /\ form.origins = <<BalanceIdPool[1], BalanceIdPool[3]>>
    /\ Referenced(BalanceIdPool[2])
    /\ ~ReferencedAsSource(BalanceIdPool[2])

\* the first entry, of a balance without transactions, has left the form
\* without a warning; saving now deletes the row of the last entry, which a
\* transaction references and which is still in the form
C18_SaveDeletesAnotherRow ==
    /\ form.pc = "editing"
    /\ form.confirmed = {}
    /\ form.existingCurrencyIds = <<BalanceIdPool[1], BalanceIdPool[2], BalanceIdPool[3]>>
    /\ form.origins = <<BalanceIdPool[2], BalanceIdPool[3]>>
    /\ ~Referenced(BalanceIdPool[1])
    /\ Referenced(BalanceIdPool[3])
    /\ Slice(form.existingCurrencyIds, Len(form.currencies)) = <<BalanceIdPool[3]>>

-----------------------------------------------------------------------------
(* Properties of the rich path, under SpecChart *)

\* the calculation is over and took the rich path
RichChart == chart.pc = "done" /\ chart.path = "rich"

\* datesToProcess of the calculation
ChartDates ==
    DatesToProcess(
        StartDate(chart.period, FirstTransactionDate(ledger, chart.now, chart.tz),
                  chart.now, chart.tz),
        chart.historicalRates, chart.now, chart.tz)

\* the sample timestamps at or before an instant
SamplesAtOrBefore(date) == {t \in Timestamps(chart.historicalRates) : t <= date}

\* the table the grouping built for a sample timestamp
TableOfSample(timestamp) ==
    RatesByTimestamp(chart.historicalRates, timestamp, chart.currentRates)

\* some sample of the timestamp priced the asset at the rate
PricedBySample(timestamp, asset, rate) ==
    \E i \in 1..Len(chart.historicalRates) :
        /\ DateString(chart.historicalRates[i]) = <<timestamp>>
        /\ AssetSymbol(chart.historicalRates[i].ticker) = asset
        /\ RateValue(chart.historicalRates[i]) = rate

\* C21: on the rich path the table used for a date of the series is the table
\* of the latest sample timestamp at or before that date, never that of a later
\* sample, and the current-rates table when no sample is at or before it;
\* and the table of every sample timestamp has every entry of the
\* current-rates table, with another rate only for a ticker that a sample of
\* that timestamp priced.
C21_NearestPrecedingSample ==
    RichChart =>
        /\ \A k \in 1..Len(ChartDates) :
            FindClosestRates(chart.historicalRates, chart.currentRates, ChartDates[k])
                = IF SamplesAtOrBefore(ChartDates[k]) = {}
                  THEN chart.currentRates
                  ELSE TableOfSample(
                        CHOOSE t \in SamplesAtOrBefore(ChartDates[k]) :
                            \A u \in SamplesAtOrBefore(ChartDates[k]) : u <= t)
        /\ \A t \in Timestamps(chart.historicalRates) :
            \A i \in 1..Len(chart.currentRates) :
                /\ HasKey(TableOfSample(t), chart.currentRates[i].asset)
                /\ \/ Get(TableOfSample(t), chart.currentRates[i].asset)
                        = chart.currentRates[i].rate
                   \/ PricedBySample(t, chart.currentRates[i].asset,
                                     Get(TableOfSample(t), chart.currentRates[i].asset))

\* a date of the series has a sample before it and a nearer sample after it,
\* and the table of the sample before it differs from the current rates
C21_Witness ==
    /\ RichChart
    /\ \E k \in 1..Len(ChartDates) :
        /\ SamplesAtOrBefore(ChartDates[k]) # {}
        /\ \E t \in Timestamps(chart.historicalRates) :
            /\ t > ChartDates[k]
            /\ \A u \in SamplesAtOrBefore(ChartDates[k]) :
                t - ChartDates[k] < ChartDates[k] - u
        /\ FindClosestRates(chart.historicalRates, chart.currentRates, ChartDates[k])
                # chart.currentRates

\* a date of the series lies before every sample: the current rates are used
C21_FallbackWitness ==
    /\ RichChart
    /\ Timestamps(chart.historicalRates) # {}
    /\ \E k \in 1..Len(ChartDates) : SamplesAtOrBefore(ChartDates[k]) = {}

\* C22: on the rich path the series has exactly one point per calendar day
\* from its first day to today: consecutive points are dated one day apart
\* and the last point is dated today, whatever samples the upstream returned.
C22_OnePointPerDay ==
    (RichChart /\ chart.result # <<>>) =>
        /\ chart.result[Len(chart.result)].date = LocalDay(chart.now, chart.tz)
        /\ \A i \in 1..(Len(chart.result) - 1) :
            chart.result[i + 1].date = chart.result[i].date + 1

\* what does hold: the same when the window was moved to the first
\* transaction and local time is UTC or behind it
C22_HoldsForMovedWindowWestOfUtc ==
    (/\ RichChart /\ chart.result # <<>> /\ chart.tz <= 0
     /\ StartDate(chart.period, FirstTransactionDate(ledger, chart.now, chart.tz),
                  chart.now, chart.tz) # <<>>) =>
        /\ chart.result[Len(chart.result)].date = LocalDay(chart.now, chart.tz)
        /\ \A i \in 1..(Len(chart.result) - 1) :
            chart.result[i + 1].date = chart.result[i].date + 1

\* a bounded period that starts after the first transaction: two points of
\* the series carry the same day
C22_TwoPointsOfOneDay ==
    /\ RichChart
    /\ chart.tz = 0
    /\ \E i \in 1..(Len(chart.result) - 1) :
        chart.result[i + 1].date = chart.result[i].date

\* a bounded period that starts after the first transaction: days between
\* two points of the series have no point, and the series ends before today
C22_DaysWithoutPoint ==
    /\ RichChart
    /\ chart.tz = 0
    /\ chart.result # <<>>
    /\ chart.result[Len(chart.result)].date < LocalDay(chart.now, chart.tz)
    /\ \E i \in 1..(Len(chart.result) - 1) :
        chart.result[i + 1].date > chart.result[i].date + 1

-----------------------------------------------------------------------------
(* Properties of overlapping calls, under SpecGatewayPair *)

\* a read element of an answer to one of the call's own requests priced the
\* asset at the rate
PricedByOwnResponse(call, asset, rate) ==
    \E i \in 1..Len(call.outcomes) :
        /\ call.outcomes[i].kind = "array"
        /\ \E j \in ReadEntries(call.outcomes[i].data) :
            /\ DecodeTicker(call.outcomes[i].category, call.outcomes[i].data[j].ticker)
                    = asset
            /\ call.outcomes[i].data[j].price = rate

\* the call returns in this step after a request of its own
ReturnsFetched(c) ==
    /\ calls[c].pc = "awaiting"
    /\ calls'[c].pc = "done"
    /\ calls'[c].path = "fetched"

\* C23: with two getAssetRates calls for the same reporting currency and
\* different ticker lists in flight, in every interleaving a call that
\* returns after its requests returns a table whose prices all come from
\* the answers to its own requests, for tickers of its own list, and at its
\* return the cache slot holds exactly that table with that call's ticker
\* list, reporting currency and start time; nothing else writes the slot.
C23_EachCallReturnsItsOwnTable ==
    [][/\ \A c \in Callers :
            ReturnsFetched(c) =>
                LET call == calls'[c]
                IN  /\ \A i \in 1..Len(call.result) :
                        \/ call.result[i] = [asset |-> call.base, rate |-> Num(1)]
                        \/ /\ Contains(call.assets, call.result[i].asset)
                           /\ PricedByOwnResponse(call, call.result[i].asset,
                                                  call.result[i].rate)
                    /\ ratesCache' =
                        [data |-> <<call.result>>, timestamp |-> call.now,
                         baseCurrency |-> call.base, requestedAssets |-> call.assets]
       /\ (\A c \in Callers : ~ReturnsFetched(c)) => ratesCache' = ratesCache
      ]_vars

\* both calls started on the empty cache, so each was in flight when the
\* other started; both have returned, with different tables, and the slot
\* holds the table and the list of the second
C23_Witness ==
    /\ \A c \in Callers :
        /\ Returned(c, "getAssetRates")
        /\ calls[c].path = "fetched"
        /\ calls[c].cacheBefore = EmptyCache
    /\ calls["c1"].assets # calls["c2"].assets
    /\ calls["c1"].base = calls["c2"].base
    /\ HasKey(calls["c1"].result, "EUR")
    /\ HasKey(calls["c2"].result, "BTC")
    /\ ratesCache.data = <<calls["c2"].result>>
    /\ ratesCache.requestedAssets = calls["c2"].assets

\* the same overlap with the first call returning last: the slot holds its
\* table and its list, and nothing of the second call's
C23_FirstWritesLastWitness ==
    /\ \A c \in Callers :
        /\ Returned(c, "getAssetRates")
        /\ calls[c].path = "fetched"
        /\ calls[c].cacheBefore = EmptyCache
    /\ HasKey(calls["c2"].result, "BTC")
    /\ ratesCache.data = <<calls["c1"].result>>
    /\ ratesCache.requestedAssets = calls["c1"].assets
    /\ ~HasKey(ratesCache.data[1], "BTC")

-----------------------------------------------------------------------------
(* The trigger against the replay, under SpecDb *)

\* no request is under way: every transaction is committed
Quiescent == \A s \in Sessions : db.sessions[s].pc = "idle"

\* the transactions the history chart hands to calculateBalanceAtDate for a
\* balance
StoredTransactionsOf(id) ==
    TransactionsOf(RowsInOrder(db.transactions, TransactionIdPool), id)

\* instants not earlier than the latest transaction date
LaterInstants == {ParseDate(DbToday), ParseDate(DbToday) + 15, ParseDate(DbToday + 1)}

\* C24: whenever no request is under way, the current_balance the trigger
\* keeps for each balance equals calculateBalanceAtDate of the transactions
\* that reference the balance, at any instant not earlier than the latest
\* transaction date.
C24_TriggerBalanceEqualsReplay ==
    Quiescent =>
        \A r \in db.account_balances : \A targetDate \in LaterInstants :
            r.current_balance
                = calculateBalanceAtDate(r, StoredTransactionsOf(r.id), targetDate)

\* a row that is no transfer still names a destination balance
StaleDestination(t) == t.type # "transfer" /\ t.to_account_balance_id # NullId

\* what does hold: the two agree while no stored row is a transfer of a
\* balance to itself or a former transfer that still names its destination
C24_HoldsWithoutSelfTransferAndStaleDestination ==
    (Quiescent /\ \A t \in db.transactions : ~SelfTransfer(t) /\ ~StaleDestination(t)) =>
        \A r \in db.account_balances : \A targetDate \in LaterInstants :
            r.current_balance
                = calculateBalanceAtDate(r, StoredTransactionsOf(r.id), targetDate)

\* an income of 100 USD, then a transfer of 100 USD from that balance to
\* itself for 90: the trigger leaves 90, the replay gives 190
C24_SelfTransferDiverges ==
    /\ Quiescent
    /\ \E r \in db.account_balances : \E t1, t2 \in db.transactions :
        /\ db.transactions = {t1, t2}
        /\ t1.type = "income" /\ t1.account_balance_id = r.id
        /\ t1.to_account_balance_id = NullId
        /\ SelfTransfer(t2) /\ t2.account_balance_id = r.id
        /\ r.current_balance = 90
        /\ calculateBalanceAtDate(r, StoredTransactionsOf(r.id), ParseDate(DbToday)) = 190

\* an income of 100 USD and a transfer of it to EUR for 90, the transfer
\* then edited into an income: the row keeps its destination, the trigger
\* has taken the 90 back from the EUR balance, the replay adds the income
\* to it
C24_StaleDestinationDiverges ==
    /\ Quiescent
    /\ \E r \in db.account_balances : \E t1, t2 \in db.transactions :
        /\ db.transactions = {t1, t2}
        /\ t1.type = "income" /\ t1.to_account_balance_id = NullId
        /\ t1.account_balance_id # r.id
        /\ StaleDestination(t2) /\ t2.type = "income"
        /\ t2.to_account_balance_id = r.id
        /\ t2.account_balance_id # r.id
        /\ r.current_balance = 0
        /\ calculateBalanceAtDate(r, StoredTransactionsOf(r.id), ParseDate(DbToday))
                = t2.amount

-----------------------------------------------------------------------------
(* The cache after failed requests, under SpecGatewayPair *)

\* a request of the call threw, came back with a non-2xx status or with a
\* body that is no array
SomeRequestFailed(call) ==
    \E i \in 1..Len(call.outcomes) : call.outcomes[i].kind \in FailureKinds

\* the caller's previous call fetched, with a failed request, and the caller
\* starts its next call for the same currency and list less than 24 hours
\* after the previous one started
CallsAgainWithinADay(c) ==
    /\ calls[c].pc = "done"
    /\ calls[c].path = "fetched"
    /\ SomeRequestFailed(calls[c])
    /\ calls'[c] # calls[c]
    /\ calls'[c].base = calls[c].base
    /\ SameUpToOrder(calls'[c].assets, calls[c].assets)
    /\ calls'[c].now - calls[c].now < 24

\* the next call returned the previous call's table and asked nothing upstream
ServedThePreviousTable(c) ==
    /\ calls'[c].pc = "done"
    /\ calls'[c].path = "cached"
    /\ calls'[c].outcomes = <<>>
    /\ calls'[c].result = calls[c].result
    /\ ratesCache' = ratesCache

\* the slot holds what the call wrote at its return
SlotHoldsTheCallsWrite(c) ==
    ratesCache = [data |-> <<calls[c].result>>, timestamp |-> calls[c].now,
                  baseCurrency |-> calls[c].base, requestedAssets |-> calls[c].assets]

\* C25 as stated: a call that returns after its requests writes its table
\* into the slot also when requests failed, and every call for the same
\* reporting currency and ticker list that starts less than 24 hours later
\* is returned that table, with no upstream request.
C25_FailedTableServedForADay ==
    [][\A c \in Callers :
        /\ (ReturnsFetched(c) /\ SomeRequestFailed(calls'[c])) =>
                ratesCache'.data = <<calls'[c].result>>
        /\ CallsAgainWithinADay(c) => ServedThePreviousTable(c)
      ]_vars

\* C25, amended: the same for every such call that starts while the slot
\* still holds what the failed attempt wrote (no call for another list has
\* fetched in between).
C25_FailedTableServedWhileInTheSlot ==
    [][\A c \in Callers :
        /\ (ReturnsFetched(c) /\ SomeRequestFailed(calls'[c])) =>
                ratesCache'.data = <<calls'[c].result>>
        /\ (CallsAgainWithinADay(c) /\ SlotHoldsTheCallsWrite(c)) =>
                ServedThePreviousTable(c)
      ]_vars

\* a call that started 12 hours after a call whose only request failed was
\* returned that call's table, in which EUR has no price
C25_Witness ==
    /\ Returned("c1", "getAssetRates")
    /\ calls["c1"].path = "cached"
    /\ calls["c1"].now - calls["c1"].cacheBefore.timestamp = 12
    /\ calls["c1"].result = calls["c1"].cacheBefore.data[1]
    /\ ~HasKey(calls["c1"].result, "EUR")
    /\ calls["c1"].outcomes = <<>>

\* a call whose previous call failed less than 24 hours before finds the
\* slot rewritten for the other list, and asks upstream again
C25_RefetchedWithinADay ==
    /\ calls["c1"].pc = "awaiting"
    /\ calls["c1"].cacheBefore.data # <<>>
    /\ calls["c1"].cacheBefore.requestedAssets = PairAssets("c2")
    /\ calls["c1"].now - calls["c1"].cacheBefore.timestamp < 24
    /\ calls["c2"].pc = "done"

-----------------------------------------------------------------------------
(* The chart calculation and the cache, under SpecChart *)

\* C26: once calculateHistoricalHoldings has got its current rates, the
\* table in the cache slot is the table getAssetRates built from the
\* upstream answers: the rate-1 entries the calculation adds are not in it.
C26_CachedTableIsWhatUpstreamProduced ==
    chart.pc # "idle" => ratesCache.data = <<chart.fetchedRates>>

\* what does hold: the cached table is the upstream table when that table
\* has a truthy rate for every asset held
C26_HoldsWhenEveryAssetIsPriced ==
    (chart.pc # "idle"
        /\ FillMissingRates(chart.fetchedRates, UniqueAssets(AllBalances(chart.accounts)))
                = chart.fetchedRates) =>
            ratesCache.data = <<chart.fetchedRates>>

\* the currency request failed: the upstream table has no EUR, the table in
\* the slot prices EUR at 1, and the slot is valid for the next getAssetRates
\* call for the same assets
C26_RateOneEntryIsCached ==
    /\ chart.pc = "done"
    /\ ~HasKey(chart.fetchedRates, "EUR")
    /\ HasKey(ratesCache.data[1], "EUR")
    /\ Get(ratesCache.data[1], "EUR") = Num(1)
    /\ CacheIsValid(ratesCache, UniqueAssets(AllBalances(chart.accounts)),
                    chart.mainCurrency, clock)

\* the sum of the values of a point's breakdown
RECURSIVE SumOfEntries(_)
SumOfEntries(entries) ==
    IF entries = <<>> THEN Num(0)
    ELSE RAdd(SumOfEntries(Tail(entries)), Head(entries).rate)

\* the key of a balance in the breakdown
BreakdownKey(account, balance) == account.name \o "_" \o balance.currency

\* C27: on the rich path the totalValue of every point is the sum of the
\* entries of its breakdown, also when accounts share a name, and a balance
\* without transactions is in the breakdown with value 0.
C27_TotalIsSumOfBreakdown ==
    RichChart =>
        \A i \in 1..Len(chart.result) :
            /\ chart.result[i].totalValue = SumOfEntries(chart.result[i].assets)
            /\ \A a \in 1..Len(chart.accounts) :
                \A b \in 1..Len(chart.accounts[a].balances) :
                    LET account == chart.accounts[a]
                        balance == account.balances[b]
                    IN  /\ HasKey(chart.result[i].assets, BreakdownKey(account, balance))
                        /\ TransactionsOf(ledger, balance.id) = <<>> =>
                            Get(chart.result[i].assets, BreakdownKey(account, balance))
                                = Num(0)

\* no two balances of the portfolio have the same key
KeysAreDistinct ==
    \A a1, a2 \in 1..Len(chart.accounts) :
        \A b1 \in 1..Len(chart.accounts[a1].balances) :
            \A b2 \in 1..Len(chart.accounts[a2].balances) :
                BreakdownKey(chart.accounts[a1], chart.accounts[a1].balances[b1])
                    = BreakdownKey(chart.accounts[a2], chart.accounts[a2].balances[b2])
                    => (a1 = a2 /\ b1 = b2)

\* what does hold: the same for portfolios whose keys are distinct
C27_HoldsForDistinctKeys ==
    (RichChart /\ KeysAreDistinct) =>
        \A i \in 1..Len(chart.result) :
            /\ chart.result[i].totalValue = SumOfEntries(chart.result[i].assets)
            /\ \A a \in 1..Len(chart.accounts) :
                \A b \in 1..Len(chart.accounts[a].balances) :
                    LET account == chart.accounts[a]
                        balance == account.balances[b]
                    IN  /\ HasKey(chart.result[i].assets, BreakdownKey(account, balance))
                        /\ TransactionsOf(ledger, balance.id) = <<>> =>
                            Get(chart.result[i].assets, BreakdownKey(account, balance))
                                = Num(0)

\* two accounts named Main hold USD: the point is worth 1000 and its
\* breakdown has one Main_USD entry, worth the 0 of the second account
C27_SharedNameLosesABalance ==
    /\ RichChart
    /\ Len(chart.accounts) = 2
    /\ \E i \in 1..Len(chart.result) :
        /\ chart.result[i].totalValue = Num(1000)
        /\ Get(chart.result[i].assets, "Main_USD") = Num(0)
        /\ SumOfEntries(chart.result[i].assets) = Num(0)

-----------------------------------------------------------------------------
(* The validated transaction form, under SpecTransactionForm *)

\* C28: whatever transactions are created, edited and deleted through the
\* transaction form, whose validation rejects an expense or a transfer
\* above the available amount of its source balance, no balance has a
\* negative current_balance.
C28_NoNegativeBalance ==
    \A r \in db.account_balances : r.current_balance >= 0

\* an income of 100 USD and an expense of 30 USD were stored and the income
\* was deleted: the USD balance is at -30
C28_DeletedIncomeLeavesNegative ==
    /\ Quiescent
    /\ db.issued_transactions = 2
    /\ \E r \in db.account_balances : \E t \in db.transactions :
        /\ db.transactions = {t}
        /\ t.type = "expense"
        /\ t.account_balance_id = r.id
        /\ r.current_balance = 0 - t.amount

\* the only transaction ever stored, an income of 100 USD, was edited into
\* an expense of 30 USD: the USD balance is at -30
C28_EditedIncomeLeavesNegative ==
    /\ Quiescent
    /\ db.issued_transactions = 1
    /\ \E r \in db.account_balances : \E t \in db.transactions :
        /\ db.transactions = {t}
        /\ t.type = "expense"
        /\ t.account_balance_id = r.id
        /\ r.current_balance = 0 - t.amount

-----------------------------------------------------------------------------
(* Saving the accounts form after a removal, under SpecAccountForm *)

\* this step is handleSubmit for the account being edited
Saves ==
    /\ form.pc = "editing"
    /\ \/ db' # db
       \/ form'.pc = "idle" /\ form'.existingCurrencyIds # <<>>

\* since handleEdit the entry at position i, and nothing else, has left the form
OnlyEntryRemoved(i) ==
    /\ i \in 1..Len(form.existingCurrencyIds)
    /\ form.origins = RemoveAt(form.existingCurrencyIds, i)

\* exactly the row is deleted, with the transactions that reference it, and
\* every other row is as it was
DeletesExactly(id) ==
    /\ db'.account_balances = {r \in db.account_balances : r.id # id}
    /\ db'.transactions =
            {t \in db.transactions :
                t.account_balance_id # id /\ t.to_account_balance_id # id}

\* C29: when the entry at position i has been removed from the form of an
\* account and the form is saved, exactly the balance row that was at
\* position i is deleted; every other row keeps its id, its currency, its
\* current_balance and its transactions.
C29_SaveDeletesTheRemovedRow ==
    [][\A i \in 1..MaxCurrencies :
        (Saves /\ OnlyEntryRemoved(i)) => DeletesExactly(form.existingCurrencyIds[i])
      ]_vars

\* what does hold: the same when the removed entry is the last of the list
\* and no transfer links its balance to another
C29_HoldsForTheLastEntry ==
    [][(/\ Saves
        /\ OnlyEntryRemoved(Len(form.existingCurrencyIds))
        /\ \A t \in db.transactions : t.type # "transfer")
            => DeletesExactly(form.existingCurrencyIds[Len(form.existingCurrencyIds)])
      ]_vars

\* the second of three entries (EUR) was removed and the form saved: the row
\* of the third entry (BTC) is gone, and the EUR row now says BTC
C29_WrongRowDeleted ==
    /\ form.pc = "idle"
    /\ form.existingCurrencyIds = <<BalanceIdPool[1], BalanceIdPool[2], BalanceIdPool[3]>>
    /\ ~HasRow(db.account_balances, BalanceIdPool[3])
    /\ HasRow(db.account_balances, BalanceIdPool[2])
    /\ RowOf(db.account_balances, BalanceIdPool[2]).currency = "BTC"
    /\ RowOf(db.account_balances, BalanceIdPool[1]).currency = "USD"

-----------------------------------------------------------------------------
(* Conversion to the reporting currency, under SpecConv *)

\* C30: for every table in which the target of the conversion has rate 1,
\* the result is the amount times the source's rate when that rate is
\* present and not 0, and the amount otherwise, whichever tickers of the
\* table also have rate 1 and whatever the order of its keys.
C30_ToReportingCurrencyIgnoresPickedBase ==
    (/\ conv.result # <<>>
     /\ HasKey(conv.rates, conv.to)
     /\ Get(conv.rates, conv.to) = Num(1)) =>
        conv.result[1] =
            IF HasKey(conv.rates, conv.from) /\ Get(conv.rates, conv.from) # Num(0)
            THEN RMul(conv.amount, Get(conv.rates, conv.from))
            ELSE conv.amount

\* 100 of a ticker priced at 2 was converted to a reporting currency of rate
\* 1 with a table whose first rate-1 key is a third ticker: the result is 200
C30_Witness ==
    /\ conv.result = <<Num(200)>>
    /\ conv.amount = Num(100)
    /\ HasKey(conv.rates, conv.to)
    /\ Get(conv.rates, conv.to) = Num(1)
    /\ Get(conv.rates, conv.from) = Num(2)
    /\ FindBase(conv.rates) \notin {conv.to, conv.from}
    /\ Get(conv.rates, FindBase(conv.rates)) = Num(1)

\* the source is the rate-1 ticker the function picks as base, and the
\* reporting currency comes later in the table
C30_SourceIsPickedBaseWitness ==
    /\ conv.result = <<conv.amount>>
    /\ conv.amount = Num(100)
    /\ conv.from # conv.to
    /\ FindBase(conv.rates) = conv.from
    /\ HasKey(conv.rates, conv.to)
    /\ Get(conv.rates, conv.to) = Num(1)
    /\ Get(conv.rates, conv.from) = Num(1)

====
